---- MODULE Spec2Model ----
(***************************************************************************)
(* Deal / pipeline-history state machine of the CRM.                       *)
(*                                                                         *)
(* The document store (core/firebase_config.py, FirebaseDB) holds two      *)
(* collections, 'deals' and 'pipeline_history'.  The sales views           *)
(* (sales/views.py) and the generic endpoints (crm_project/views.py) are   *)
(* the request handlers; Deal.update_stage (sales/models.py) is the        *)
(* relational implementation of the same stage transition.                 *)
(***************************************************************************)
EXTENDS Integers, Sequences, FiniteSets, TLC

(***************************************************************************)
(* Bounds                                                                  *)
(***************************************************************************)
\* number of documents add_record may create in the 'deals' collection
MaxDeals == 2
\* number of readings of datetime.now() in one run
MaxClock == 2

\* rows of a pipeline-history log
MaxLog == 4

\* deals of a forecast snapshot
MaxRows == 3

(***************************************************************************)
(* Program constants                                                       *)
(***************************************************************************)
\* Deal.STAGE_CHOICES
STAGE_CHOICES == {"Lead", "Qualified", "Proposal", "Negotiation", "Won", "Lost", "On Hold"}

\* request.user: email -> is_staff
Users == {"alice", "bob"}

\* a request without a session (request.user.is_authenticated is False)
Anonymous == "anonymous"

is_authenticated(u) == u \in Users

is_staff(u) == u = "bob"

\* stage names a request may carry: the known ones, one unknown, and the
\* empty string (absent 'stage' key)
StageInputs == STAGE_CHOICES \cup {"Archived", ""}

\* probabilities a form may carry (150 is out of range)
ProbInputs == {40, 150}

\* stage names the deal form may carry
FormStageInputs == {"Lead", "Won", "On Hold", "Archived"}

\* 'probability' key of the move request body; -1 stands for an absent key
BodyProbInputs == {-1, 40}

Collections == {"deals", "pipeline_history"}

VARIABLES
    db,       \* db[collection]: function doc id -> document
    ids,      \* ids[collection]: number of doc ids generated so far
    clock,    \* last value datetime.now() returned
    last,     \* the last request served and its HTTP status
    pc,       \* pc[p]: position of overlapping move request p
    req       \* req[p]: locals of overlapping move request p

vars == <<db, ids, clock, last, pc, req>>

(***************************************************************************)
(* FirebaseDB                                                              *)
(***************************************************************************)
\* dict.update(): fields of data override those of doc
Merge(doc, data) ==
    [k \in DOMAIN doc \cup DOMAIN data |->
        IF k \in DOMAIN data THEN data[k] ELSE doc[k]]

\* FirebaseDB.add_record: stamps created_at, stores under a fresh doc id
add_record(store, collection, doc_id, data, now) ==
    [store EXCEPT ![collection] =
        [i \in DOMAIN store[collection] \cup {doc_id} |->
            IF i = doc_id
            THEN Merge(data, [created_at |-> now, id |-> doc_id])
            ELSE store[collection][i]]]

\* FirebaseDB.update_record returns True iff document(doc_id).update(data)
\* did not raise: the store answered and the document exists
update_ok(store, collection, doc_id, store_up) ==
    store_up /\ doc_id \in DOMAIN store[collection]

\* update_record that writes the document although the update raises
update_recordMut(store, collection, doc_id, data, now, store_up) ==
    IF doc_id \in DOMAIN store[collection]
    THEN [store EXCEPT ![collection][doc_id] =
              Merge(@, Merge(data, [updated_at |-> now]))]
    ELSE store

\* FirebaseDB.update_record: stamps updated_at and merges data into the
\* document; the store is left alone when the update raises
update_record(store, collection, doc_id, data, now, store_up) ==
    IF update_ok(store, collection, doc_id, store_up)
    THEN [store EXCEPT ![collection][doc_id] =
              Merge(@, Merge(data, [updated_at |-> now]))]
    ELSE store

\* FirebaseDB.delete_record: removes the document (and nothing else)
delete_record(store, collection, doc_id, store_up) ==
    IF store_up
    THEN [store EXCEPT ![collection] =
              [i \in DOMAIN store[collection] \ {doc_id} |-> store[collection][i]]]
    ELSE store

\* find_deal with "deal = d" outside the if: the last record read is kept
find_dealMut(records, deal_id) ==
    IF deal_id \in DOMAIN records THEN deal_id
    ELSE IF DOMAIN records = {} THEN 0
    ELSE CHOOSE i \in DOMAIN records : \A j \in DOMAIN records : j <= i

\* the loop "for d in deals: if d.get('id') == deal_id: deal = d; break";
\* 0 stands for None
find_deal(records, deal_id) ==
    IF deal_id \in DOMAIN records THEN deal_id ELSE 0

(***************************************************************************)
(* Stage rules shared by deal_move_stage and Deal.update_stage             *)
(***************************************************************************)
\* StageProbability with the Negotiation entry mistyped
StageProbabilityMut(new_stage, current) ==
    CASE new_stage = "Lead" -> 10
      [] new_stage = "Qualified" -> 25
      [] new_stage = "Proposal" -> 50
      [] new_stage = "Negotiation" -> 70
      [] new_stage = "Won" -> 100
      [] new_stage = "Lost" -> 0
      [] OTHER -> current

\* stage_probabilities.get(new_stage, current): 'On Hold' and unknown
\* stages keep the current probability
StageProbability(new_stage, current) ==
    CASE new_stage = "Lead" -> 10
      [] new_stage = "Qualified" -> 25
      [] new_stage = "Proposal" -> 50
      [] new_stage = "Negotiation" -> 75
      [] new_stage = "Won" -> 100
      [] new_stage = "Lost" -> 0
      [] OTHER -> current

\* StageStatus without the 'On Hold' branch
StageStatusMut(new_stage) ==
    CASE new_stage = "Won" -> "Won"
      [] new_stage = "Lost" -> "Lost"
      [] OTHER -> "Active"

\* the if/elif chain that derives status from the new stage
StageStatus(new_stage) ==
    CASE new_stage = "Won" -> "Won"
      [] new_stage = "Lost" -> "Lost"
      [] new_stage = "On Hold" -> "On Hold"
      [] OTHER -> "Active"

\* HistoryData with from_stage and to_stage exchanged
HistoryDataMut(deal_id, from_stage, to_stage, changed_by) ==
    [deal_id |-> deal_id, from_stage |-> to_stage,
     to_stage |-> from_stage, changed_by |-> changed_by]

\* history_data built by the views
HistoryData(deal_id, from_stage, to_stage, changed_by) ==
    [deal_id |-> deal_id, from_stage |-> from_stage,
     to_stage |-> to_stage, changed_by |-> changed_by]

\* PipelineHistorySchema.create_history_document
create_history_document(history_data) == history_data

\* DealSchema.create_deal_document
create_deal_document(deal_data) == deal_data

\* DealSchema.validate_deal: unknown stage names and probabilities outside
\* 0..100 are malformed input
validate_deal(deal_data) ==
    /\ deal_data.stage \in STAGE_CHOICES
    /\ deal_data.probability >= 0
    /\ deal_data.probability <= 100

\* StageChanged comparing the new stage with itself
StageChangedMut(old_stage, new_stage) == new_stage # new_stage

\* "if old_stage != update_data['stage']" of deal_update
StageChanged(old_stage, new_stage) == old_stage # new_stage

\* the last request served: the view, the deal id it named, its outcome and,
\* for a request that succeeded, the stage and the probability it asked for.
\* result is one of
\*   "ok"          200, or the redirect after a successful form post
\*   "not_found"   404 'Deal not found' (deal_update: redirect with that message)
\*   "denied"      403 'Permission denied' (deal_update: redirect)
\*   "required"    400 'Stage is required'
\*   "invalid"     the form is shown again with the validation error
\*   "failed"      500 'Failed to update deal'
Served(op, deal_id, stage, probability) ==
    [op |-> op, deal_id |-> deal_id, stage |-> stage,
     probability |-> probability, result |-> "ok"]

Rejected(op, deal_id, result) ==
    [op |-> op, deal_id |-> deal_id, stage |-> "",
     probability |-> -1, result |-> result]

NextId(collection) == ids[collection] + 1

Procs == {1, 2}

NoReq == [user |-> "", deal_id |-> 0, old_stage |-> "", new_stage |-> "",
          update_data |-> <<>>]

Init ==
    /\ db = [c \in Collections |-> <<>>]
    /\ ids = [c \in Collections |-> 0]
    /\ clock = 0
    /\ last = Rejected("init", 0, "ok")
    /\ pc = [p \in Procs |-> "idle"]
    /\ req = [p \in Procs |-> NoReq]

Idle == \A p \in Procs : pc[p] = "idle"

(***************************************************************************)
(* sales/views.py, one request at a time                                   *)
(***************************************************************************)
\* deal_create (POST)
deal_create(u, stage, probability) ==
    LET deal_data == [stage |-> stage, probability |-> probability,
                      assigned_to |-> u, status |-> "Active"]
        doc_id == NextId("deals")
        hist_id == NextId("pipeline_history")
        now == clock + 1
    IN  /\ Idle
        /\ ids["deals"] < MaxDeals
        /\ clock < MaxClock
        /\ IF ~validate_deal(deal_data)
           THEN /\ last' = Rejected("deal_create", 0, "invalid")
                /\ UNCHANGED <<db, ids, clock>>
           ELSE /\ db' = add_record(
                           add_record(db, "deals", doc_id,
                                      create_deal_document(deal_data), now),
                           "pipeline_history", hist_id,
                           create_history_document(
                               HistoryData(doc_id, "New", stage, u)), now)
                /\ ids' = [ids EXCEPT !["deals"] = doc_id,
                                      !["pipeline_history"] = hist_id]
                /\ clock' = now
                /\ last' = Served("deal_create", doc_id, stage, probability)
        /\ UNCHANGED <<pc, req>>

\* "if not request.user.is_staff and deal.get('assigned_to') != request.user.email"
PermissionDenied(u, deal) == ~is_staff(u) /\ deal.assigned_to # u

\* deal_update (POST)
deal_update(u, deal_id, stage, probability, store_up) ==
    LET deal == find_deal(db["deals"], deal_id)
        now == clock + 1
        old_stage == db["deals"][deal].stage
        update_data == [stage |-> stage, probability |-> probability,
                        updated_date |-> now]
        success == update_ok(db, "deals", deal_id, store_up)
        updated == update_record(db, "deals", deal_id, update_data, now, store_up)
        hist_id == NextId("pipeline_history")
    IN  /\ Idle
        /\ IF deal = 0
           THEN /\ last' = Rejected("deal_update", deal_id, "not_found")
                /\ UNCHANGED <<db, ids, clock>>
           ELSE IF PermissionDenied(u, db["deals"][deal])
           THEN /\ last' = Rejected("deal_update", deal_id, "denied")
                /\ UNCHANGED <<db, ids, clock>>
           ELSE /\ clock < MaxClock
                /\ clock' = now
                /\ IF ~validate_deal(update_data)
                   THEN /\ last' = Rejected("deal_update", deal_id, "invalid")
                        /\ UNCHANGED <<db, ids>>
                   ELSE IF ~success
                   THEN /\ last' = Rejected("deal_update", deal_id, "failed")
                        /\ db' = updated
                        /\ UNCHANGED ids
                   ELSE IF StageChanged(old_stage, stage)
                   THEN /\ db' = add_record(updated, "pipeline_history", hist_id,
                                     create_history_document(
                                         HistoryData(deal_id, old_stage, stage, u)), now)
                        /\ ids' = [ids EXCEPT !["pipeline_history"] = hist_id]
                        /\ last' = Served("deal_update", deal_id, stage, probability)
                   ELSE /\ db' = updated
                        /\ UNCHANGED ids
                        /\ last' = Served("deal_update", deal_id, stage, probability)
        /\ UNCHANGED <<pc, req>>

\* MoveUpdateData with a guard that keeps a closed deal in its stage
MoveUpdateDataMut(deal, new_stage, body_probability, now) ==
    LET kept == IF deal.stage \in {"Won", "Lost"} THEN deal.stage ELSE new_stage
    IN  [stage |-> kept, updated_date |-> now,
         probability |-> StageProbability(kept, deal.probability),
         status |-> StageStatus(kept)]

\* update_data of deal_move_stage: the 'probability' key of the request
\* body is never read
MoveUpdateData(deal, new_stage, body_probability, now) ==
    [stage |-> new_stage, updated_date |-> now,
     probability |-> StageProbability(new_stage, deal.probability),
     status |-> StageStatus(new_stage)]

\* deal_move_stage (POST, JSON body {stage, notes})
deal_move_stage(u, deal_id, new_stage, body_probability, store_up) ==
    LET deal == find_deal(db["deals"], deal_id)
        now == clock + 1
        old_stage == db["deals"][deal].stage
        update_data == MoveUpdateData(db["deals"][deal], new_stage, body_probability, now)
        success == update_ok(db, "deals", deal_id, store_up)
        updated == update_record(db, "deals", deal_id, update_data, now, store_up)
        hist_id == NextId("pipeline_history")
    IN  /\ Idle
        /\ IF deal = 0
           THEN /\ last' = Rejected("deal_move_stage", deal_id, "not_found")
                /\ UNCHANGED <<db, ids, clock>>
           ELSE IF PermissionDenied(u, db["deals"][deal])
           THEN /\ last' = Rejected("deal_move_stage", deal_id, "denied")
                /\ UNCHANGED <<db, ids, clock>>
           ELSE IF new_stage = ""
           THEN /\ last' = Rejected("deal_move_stage", deal_id, "required")
                /\ UNCHANGED <<db, ids, clock>>
           ELSE /\ clock < MaxClock
                /\ clock' = now
                /\ IF success
                   THEN /\ db' = add_record(updated, "pipeline_history", hist_id,
                                     create_history_document(
                                         HistoryData(deal_id, old_stage, new_stage, u)), now)
                        /\ ids' = [ids EXCEPT !["pipeline_history"] = hist_id]
                        /\ last' = Served("deal_move_stage", deal_id, new_stage, body_probability)
                   ELSE /\ db' = updated
                        /\ UNCHANGED ids
                        /\ last' = Rejected("deal_move_stage", deal_id, "failed")
        /\ UNCHANGED <<pc, req>>

(***************************************************************************)
(* sales/models.py: the relational implementation                          *)
(***************************************************************************)
\* Deal.update_stage, as called by PipelineManager.move_deal_stage; save()
\* touches updated_date (auto_now), the history row gets changed_date
\* (auto_now_add)
update_stage(deal_id, new_stage) ==
    LET self == db["deals"][deal_id]
        now == clock + 1
        old_stage == self.stage
        saved == Merge(self, [stage |-> new_stage,
                              probability |-> StageProbability(new_stage, self.probability),
                              status |-> StageStatus(new_stage),
                              updated_date |-> now])
        hist_id == NextId("pipeline_history")
    IN  /\ Idle
        /\ deal_id \in DOMAIN db["deals"]
        /\ clock < MaxClock
        /\ clock' = now
        /\ db' = [db EXCEPT
                    !["deals"][deal_id] = saved,
                    !["pipeline_history"] =
                        [i \in DOMAIN @ \cup {hist_id} |->
                            IF i = hist_id
                            THEN Merge(HistoryData(deal_id, old_stage, new_stage,
                                                   self.assigned_to),
                                       [id |-> hist_id, changed_date |-> now])
                            ELSE @[i]]]
        /\ ids' = [ids EXCEPT !["pipeline_history"] = hist_id]
        /\ last' = Served("update_stage", deal_id, new_stage, -1)
        /\ UNCHANGED <<pc, req>>

\* deal ids a request may name (an id is absent until add_record generates it)
DealIds == 1..MaxDeals

Next ==
    \/ \E u \in Users, s \in FormStageInputs, p \in ProbInputs : deal_create(u, s, p)
    \/ \E u \in Users, d \in DealIds, s \in FormStageInputs, p \in ProbInputs,
          up \in BOOLEAN : deal_update(u, d, s, p, up)
    \/ \E u \in Users, d \in DealIds, s \in StageInputs, p \in BodyProbInputs,
          up \in BOOLEAN : deal_move_stage(u, d, s, p, up)
    \/ \E d \in DealIds, s \in STAGE_CHOICES \cup {"Archived"} : update_stage(d, s)

Spec == Init /\ [][Next]_vars

(***************************************************************************)
(* crm_project/views.py: the generic endpoints, and deal_delete            *)
(***************************************************************************)
\* POST data of the generic update endpoint
GenericData == {[to_stage |-> "Lost"], [stage |-> "Won"]}

HistIds == 1..(MaxClock + 1)

DocIds(collection) == IF collection = "deals" THEN DealIds ELSE HistIds

\* update_record view: any authenticated user, any collection, any fields
update_record_view(u, collection, doc_id, data, store_up) ==
    LET now == clock + 1
    IN  /\ Idle
        /\ IF ~is_authenticated(u)
           THEN /\ last' = Rejected("update_record", doc_id, "denied")
                /\ UNCHANGED <<db, clock>>
           ELSE /\ clock < MaxClock
                /\ clock' = now
                /\ db' = update_record(db, collection, doc_id, data, now, store_up)
                /\ last' = IF update_ok(db, collection, doc_id, store_up)
                           THEN Served("update_record", doc_id, "", -1)
                           ELSE Rejected("update_record", doc_id, "failed")
        /\ UNCHANGED <<ids, pc, req>>

\* delete_record view: any authenticated user, any collection
delete_record_view(u, collection, doc_id, store_up) ==
    /\ Idle
    /\ IF ~is_authenticated(u)
       THEN /\ last' = Rejected("delete_record", doc_id, "denied")
            /\ UNCHANGED db
       ELSE /\ db' = delete_record(db, collection, doc_id, store_up)
            /\ last' = IF store_up
                       THEN Served("delete_record", doc_id, "", -1)
                       ELSE Rejected("delete_record", doc_id, "failed")
    /\ UNCHANGED <<ids, clock, pc, req>>

\* role_required('Admin', 'Manager'): staff users hold the Manager role
role_required(u) == is_authenticated(u) /\ is_staff(u)

\* deal_delete (POST): removes the deal document only
deal_delete(u, deal_id, store_up) ==
    LET deal == find_deal(db["deals"], deal_id)
    IN  /\ Idle
        /\ IF ~role_required(u)
           THEN /\ last' = Rejected("deal_delete", deal_id, "denied")
                /\ UNCHANGED db
           ELSE IF deal = 0
           THEN /\ last' = Rejected("deal_delete", deal_id, "not_found")
                /\ UNCHANGED db
           ELSE /\ db' = delete_record(db, "deals", deal_id, store_up)
                /\ last' = IF store_up
                           THEN Served("deal_delete", deal_id, "", -1)
                           ELSE Rejected("deal_delete", deal_id, "failed")
        /\ UNCHANGED <<ids, clock, pc, req>>

NextGeneric ==
    \/ Next
    \/ \E u \in Users \cup {Anonymous}, c \in Collections, data \in GenericData,
          up \in BOOLEAN : \E i \in DocIds(c) :
            update_record_view(u, c, i, data, up)
    \/ \E u \in Users \cup {Anonymous}, c \in Collections, up \in BOOLEAN :
          \E i \in DocIds(c) : delete_record_view(u, c, i, up)
    \/ \E u \in Users \cup {Anonymous}, d \in DealIds, up \in BOOLEAN :
            deal_delete(u, d, up)

SpecGeneric == Init /\ [][NextGeneric]_vars

(***************************************************************************)
(* deal_move_stage, two requests overlapping: each request reads the deal  *)
(* (get_records), writes it (update_record) and then appends its history   *)
(* document (add_record); nothing orders the steps of different requests   *)
(***************************************************************************)
\* stage names the overlapping requests carry
ConcStageInputs == {"Qualified", "Proposal", ""}

\* lines 341-391: get_records, the three early returns, update_data
move_read(p, u, deal_id, new_stage) ==
    LET deal == find_deal(db["deals"], deal_id)
        now == clock + 1
    IN  /\ pc[p] = "idle"
        /\ IF deal = 0
           THEN /\ last' = Rejected("deal_move_stage", deal_id, "not_found")
                /\ UNCHANGED <<clock, pc, req>>
           ELSE IF PermissionDenied(u, db["deals"][deal])
           THEN /\ last' = Rejected("deal_move_stage", deal_id, "denied")
                /\ UNCHANGED <<clock, pc, req>>
           ELSE IF new_stage = ""
           THEN /\ last' = Rejected("deal_move_stage", deal_id, "required")
                /\ UNCHANGED <<clock, pc, req>>
           ELSE /\ clock' = now
                /\ req' = [req EXCEPT ![p] =
                              [user |-> u, deal_id |-> deal_id,
                               old_stage |-> db["deals"][deal].stage,
                               new_stage |-> new_stage,
                               update_data |-> MoveUpdateData(db["deals"][deal],
                                                              new_stage, -1, now)]]
                /\ pc' = [pc EXCEPT ![p] = "write"]
                /\ UNCHANGED last
        /\ UNCHANGED <<db, ids>>

\* line 393: FirebaseDB.update_record
move_write(p, store_up) ==
    LET now == clock + 1
        r == req[p]
    IN  /\ pc[p] = "write"
        /\ clock' = now
        /\ db' = update_record(db, "deals", r.deal_id, r.update_data, now, store_up)
        /\ IF update_ok(db, "deals", r.deal_id, store_up)
           THEN /\ pc' = [pc EXCEPT ![p] = "append"]
                /\ UNCHANGED last
           ELSE /\ pc' = [pc EXCEPT ![p] = "done"]
                /\ last' = Rejected("deal_move_stage", r.deal_id, "failed")
        /\ UNCHANGED <<ids, req>>

\* lines 395-413: the history document and the response
move_append(p) ==
    LET now == clock + 1
        r == req[p]
        hist_id == NextId("pipeline_history")
    IN  /\ pc[p] = "append"
        /\ clock' = now
        /\ db' = add_record(db, "pipeline_history", hist_id,
                            create_history_document(
                                HistoryData(r.deal_id, r.old_stage, r.new_stage, r.user)),
                            now)
        /\ ids' = [ids EXCEPT !["pipeline_history"] = hist_id]
        /\ pc' = [pc EXCEPT ![p] = "done"]
        /\ last' = Served("deal_move_stage", r.deal_id, r.new_stage, -1)
        /\ UNCHANGED req

NextConc ==
    \/ \E u \in Users, s \in FormStageInputs, p \in ProbInputs : deal_create(u, s, p)
    \/ \E p \in Procs, u \in Users, d \in DealIds, s \in ConcStageInputs :
            move_read(p, u, d, s)
    \/ \E p \in Procs, up \in BOOLEAN : move_write(p, up)
    \/ \E p \in Procs : move_append(p)

SpecConc == Init /\ [][NextConc]_vars

(***************************************************************************)
(* Properties                                                              *)
(***************************************************************************)
Deals == db["deals"]

History == db["pipeline_history"]

\* timestamp of a history record: created_at (document store) or
\* changed_date (relational row)
changed_at(h) == IF "changed_date" \in DOMAIN h THEN h.changed_date ELSE h.created_at

\* the history records of deal d
HistOf(d) == {h \in DOMAIN History : History[h].deal_id = d}

\* the chronologically latest history record of deal d
Latest(d) ==
    CHOOSE h \in HistOf(d) :
        \A g \in HistOf(d) : changed_at(History[g]) <= changed_at(History[h])

\* the stage -> status mapping the specification states
MappedStatus(stage) ==
    IF stage \in {"Won", "Lost", "On Hold"} THEN stage ELSE "Active"

\* the default probabilities the specification states
DefaultProbability == [Lead |-> 10, Qualified |-> 25, Proposal |-> 50,
                       Negotiation |-> 75, Won |-> 100, Lost |-> 0]

MoveOps == {"deal_move_stage", "update_stage"}

\* C1: in every reachable state each deal's status is the image of its stage
\* under Won->Won, Lost->Lost, On Hold->On Hold, other->Active.
C1_StatusFollowsStage ==
    \A d \in DOMAIN Deals : Deals[d].status = MappedStatus(Deals[d].stage)

C4_SameStageIsNoOp ==
    [][(/\ last'.op \in MoveOps
        /\ last'.result = "ok"
        /\ last'.deal_id \in DOMAIN Deals
        /\ last'.stage = Deals[last'.deal_id].stage)
       => /\ History' = History
          /\ Deals'[last'.deal_id] = Deals[last'.deal_id]]_vars

\* C5: right after a successful move the deal's stage is the requested one
\* and its status is the image of that stage under the mapping.
C5_MoveSetsStageAndStatus ==
    (last.op \in MoveOps /\ last.result = "ok")
    => /\ Deals[last.deal_id].stage = last.stage
       /\ Deals[last.deal_id].status = MappedStatus(last.stage)

\* C5 witness: a Won deal has just been moved to On Hold.
C5_Witness ==
    /\ last.op \in MoveOps
    /\ last.result = "ok"
    /\ last.stage = "On Hold"
    /\ \E h \in HistOf(last.deal_id) :
          History[h].from_stage = "Won" /\ History[h].to_stage = "On Hold"

ChainEndsInStage(d) ==
    /\ \A h \in HistOf(d) : \A g \in HistOf(d) :
          (/\ changed_at(History[g]) < changed_at(History[h])
           /\ \A k \in HistOf(d) :
                 ~(/\ changed_at(History[g]) < changed_at(History[k])
                   /\ changed_at(History[k]) < changed_at(History[h])))
          => History[h].from_stage = History[g].to_stage
    /\ HistOf(d) # {} => History[Latest(d)].to_stage = Deals[d].stage

\* C7: once two overlapping move requests have both completed, the history
\* records of each deal form a chain (every from_stage is the to_stage of the
\* record before it) whose last to_stage is the deal's stage.
C7_NoLostUpdate ==
    (\A p \in Procs : pc[p] = "done") => \A d \in DOMAIN Deals : ChainEndsInStage(d)

\* C8: no step removes a history record or changes its deal reference,
\* from_stage, to_stage, changed_by or timestamp.
C8_HistoryAppendOnly ==
    [][\A h \in DOMAIN History :
          /\ h \in DOMAIN History'
          /\ History'[h].deal_id = History[h].deal_id
          /\ History'[h].from_stage = History[h].from_stage
          /\ History'[h].to_stage = History[h].to_stage
          /\ History'[h].changed_by = History[h].changed_by
          /\ changed_at(History'[h]) = changed_at(History[h])]_vars

\* C9: a move request naming a deal id that is not in the store is answered
\* not-found and leaves both collections as they were.
C9_MoveMissingDeal ==
    [][(last'.op = "deal_move_stage" /\ last'.deal_id \notin DOMAIN Deals)
       => /\ last'.result = "not_found"
          /\ db' = db
          /\ ids' = ids]_vars

\* C9 witness: a move request was answered not-found while the store holds
\* another deal and its history.
C9_Witness ==
    /\ last.op = "deal_move_stage"
    /\ last.result = "not_found"
    /\ last.deal_id \notin DOMAIN Deals
    /\ DOMAIN Deals # {}
    /\ DOMAIN History # {}

\* C10: in every reachable state each deal's stage is one of the seven known
\* stages (a move to an unknown stage is refused).
C10_StageIsKnown ==
    \A d \in DOMAIN Deals : Deals[d].stage \in STAGE_CHOICES

(***************************************************************************)
(* Stage moves from every stage: the store holds one deal, created by      *)
(* deal_create in any of the seven stages of the form's choice list        *)
(***************************************************************************)
InitMove ==
    /\ \E u \in Users, s \in STAGE_CHOICES :
          /\ db = add_record(
                     add_record([c \in Collections |-> <<>>], "deals", 1,
                                create_deal_document(
                                    [stage |-> s, probability |-> 40,
                                     assigned_to |-> u, status |-> "Active"]), 1),
                     "pipeline_history", 1,
                     create_history_document(HistoryData(1, "New", s, u)), 1)
          /\ last = Served("deal_create", 1, s, 40)
    /\ ids = [c \in Collections |-> 1]
    /\ clock = 1
    /\ pc = [p \in Procs |-> "idle"]
    /\ req = [p \in Procs |-> NoReq]

NextMove ==
    \/ \E u \in Users, d \in DealIds, s \in StageInputs, p \in BodyProbInputs,
          up \in BOOLEAN : deal_move_stage(u, d, s, p, up)
    \/ \E d \in DealIds, s \in STAGE_CHOICES \cup {"Archived"} : update_stage(d, s)

SpecMove == InitMove /\ [][NextMove]_vars

\* the deal's owner moves deal d to stage t and the store accepts the write
MoveTo(d, t) ==
    /\ deal_move_stage(Deals[d].assigned_to, d, t, -1, TRUE)
    /\ last'.result = "ok"
    /\ Deals'[d].stage = t
    /\ Deals'[d].status = MappedStatus(t)
    /\ t \in DOMAIN DefaultProbability => Deals'[d].probability = DefaultProbability[t]

\* the same through Deal.update_stage
UpdateStageTo(d, t) ==
    /\ update_stage(d, t)
    /\ Deals'[d].stage = t
    /\ Deals'[d].status = MappedStatus(t)
    /\ t \in DOMAIN DefaultProbability => Deals'[d].probability = DefaultProbability[t]

\* C11: whatever stage a deal is in, a move to any other of the seven
\* stages is possible in one step and ends in that stage with its status and
\* default probability (Won -> Lead: Lead, Active, 10).
C11_AnyStageToAnyStage ==
    \A d \in DOMAIN Deals : \A t \in STAGE_CHOICES :
        (clock < MaxClock /\ t # Deals[d].stage)
        => (ENABLED MoveTo(d, t)) /\ (ENABLED UpdateStageTo(d, t))

\* C11 witness: a Won deal has been moved to Lead and is Active at 10.
C11_Witness ==
    /\ last.op = "deal_move_stage"
    /\ last.result = "ok"
    /\ last.stage = "Lead"
    /\ Deals[last.deal_id].stage = "Lead"
    /\ Deals[last.deal_id].status = "Active"
    /\ Deals[last.deal_id].probability = 10
    /\ \E h \in HistOf(last.deal_id) :
          History[h].from_stage = "Won" /\ History[h].to_stage = "Lead"

(***************************************************************************)
(* Pipeline aggregation over a snapshot of the deals collection            *)
(***************************************************************************)
\* (value, probability) of the deals of a snapshot; the values are multiples
\* of 100, so that value * probability / 100 is a whole number and the
\* float the code computes is exact
SnapAmounts == {<<1000, 0>>, <<3000, 75>>, <<1000, 100>>}

\* (stage, status) of the deals of a snapshot
SnapStageStatus == {<<"Lead", "Active">>, <<"Proposal", "Active">>, <<"Won", "Won">>}

SnapDocs ==
    {[stage |-> ss[1], status |-> ss[2], value |-> a[1], probability |-> a[2],
      assigned_to |-> u] : ss \in SnapStageStatus, a \in SnapAmounts, u \in Users}

\* the deals collection holds any list of up to MaxDeals such documents
InitPipeline ==
    /\ \E n \in 0..MaxDeals : \E f \in [1..n -> SnapDocs] :
          db = [c \in Collections |->
                   IF c = "deals" THEN [i \in 1..n |-> Merge(f[i], [id |-> i])]
                   ELSE <<>>]
    /\ ids = [c \in Collections |-> Len(db[c])]
    /\ clock = 0
    /\ last = Rejected("init", 0, "ok")
    /\ pc = [p \in Procs |-> "idle"]
    /\ req = [p \in Procs |-> NoReq]

\* FirebaseDB.get_records: the documents of a collection as a list
get_records(collection) == db[collection]

\* Python's sum() over a list of numbers
RECURSIVE sum(_)
sum(xs) == IF xs = <<>> THEN 0 ELSE Head(xs) + sum(Tail(xs))

\* round-half-to-even of num / den, as Python's round() on a float that is
\* exact or not a tie (true for the denominators of these snapshots)
round_half_even(num, den) ==
    LET q == num \div den
        r == num % den
    IN  IF 2 * r < den THEN q
        ELSE IF 2 * r > den THEN q + 1
        ELSE IF q % 2 = 0 THEN q ELSE q + 1

\* the stage list of get_pipeline_analytics, in its order
stage_choices == <<"Lead", "Qualified", "Proposal", "Negotiation", "Won", "Lost", "On Hold">>

\* d.get('value', 0) * d.get('probability', 0) / 100
doc_weighted(d) == (d.value * d.probability) \div 100

\* the type of Python's a * b on numbers: Decimal and float do not mix
mul_type(a, b) ==
    IF {a, b} = {"Decimal", "float"} THEN "TypeError"
    ELSE IF "float" \in {a, b} THEN "float"
    ELSE IF "Decimal" \in {a, b} THEN "Decimal"
    ELSE "int"

\* the type of Deal.value: Decimal once the row is loaded (DecimalField),
\* the constructor's int before that
ValueTypes == {"Decimal", "int"}

\* Deal.weighted_value: self.value * (self.probability / 100); the right
\* operand is a float
weighted_value(deal_id, value_type) ==
    /\ deal_id \in DOMAIN db["deals"]
    /\ LET deal == db["deals"][deal_id]
       IN  last' = IF mul_type(value_type, "float") = "TypeError"
                   THEN [op |-> "weighted_value", deal_id |-> deal_id,
                         value_type |-> value_type, result |-> "TypeError"]
                   ELSE [op |-> "weighted_value", deal_id |-> deal_id,
                         value_type |-> value_type, result |-> "ok",
                         weighted_value |-> (deal.value * deal.probability) \div 100]
    /\ UNCHANGED <<db, ids, clock, pc, req>>

\* one entry of pipeline_dist; avg_probability is in tenths (round(., 1))
pipeline_dist_entry(active_deals, stage) ==
    LET InStage(d) == d.stage = stage
        stage_deals == SelectSeq(active_deals, InStage)
        n == Len(stage_deals)
    IN  [count |-> n,
         value |-> sum([i \in 1..n |-> stage_deals[i].value]),
         weighted_value |-> sum([i \in 1..n |-> doc_weighted(stage_deals[i])]),
         avg_probability |->
             IF n = 0 THEN 0
             ELSE round_half_even(10 * sum([i \in 1..n |-> stage_deals[i].probability]), n)]

\* DataProcessor.get_pipeline_analytics
get_pipeline_analytics ==
    LET deals == get_records("deals")
        IsActive(d) == d.status = "Active"
        active_deals == SelectSeq(deals, IsActive)
        stages == {stage_choices[i] : i \in DOMAIN stage_choices}
        pipeline_dist == [stage \in stages |-> pipeline_dist_entry(active_deals, stage)]
    IN  /\ last' = [op |-> "get_pipeline_analytics", result |-> "ok",
                    distribution |-> pipeline_dist,
                    velocity |-> [stage \in stages |-> [avg_days |-> 0, sample_size |-> 0]],
                    conversions |-> [stage \in stages |-> [to_stage \in stages |-> 0]],
                    total_pipeline_value |->
                        sum([i \in DOMAIN stage_choices |-> pipeline_dist[stage_choices[i]].value]),
                    total_weighted_value |->
                        sum([i \in DOMAIN stage_choices |->
                                pipeline_dist[stage_choices[i]].weighted_value])]
        /\ UNCHANGED <<db, ids, clock, pc, req>>

\* values of the 'stage' query parameter of pipeline_view
StageFilters == {"", "Lead", "Won"}

\* stage_deals[:10]
DealsShown == 10

\* sales/views.py pipeline_view (GET)
pipeline_view(u, stage_filter) ==
    LET all == get_records("deals")
        Mine(d) == d.assigned_to = u
        by_user == IF ~is_staff(u) THEN SelectSeq(all, Mine) ELSE all
        Filtered(d) == d.stage = stage_filter
        deals == IF stage_filter # "" THEN SelectSeq(by_user, Filtered) ELSE by_user
        entry(stage) ==
            LET InStage(d) == d.stage = stage
                stage_deals == SelectSeq(deals, InStage)
                n == Len(stage_deals)
            IN  [count |-> n,
                 total_value |-> sum([i \in 1..n |-> stage_deals[i].value]),
                 weighted_value |-> sum([i \in 1..n |-> doc_weighted(stage_deals[i])]),
                 deals |-> [i \in 1..(IF n < DealsShown THEN n ELSE DealsShown) |->
                               stage_deals[i].id]]
    IN  /\ is_authenticated(u)
        /\ last' = [op |-> "pipeline_view", result |-> "ok", user |-> u,
                    stage_filter |-> stage_filter,
                    pipeline_data |-> [stage \in STAGE_CHOICES |-> entry(stage)],
                    forecast |-> [total_value |->
                                     sum([i \in 1..Len(deals) |-> deals[i].value])]]
        /\ UNCHANGED <<db, ids, clock, pc, req>>

NextPipeline ==
    \/ \E d \in DealIds, t \in ValueTypes : weighted_value(d, t)
    \/ get_pipeline_analytics
    \/ \E u \in Users, f \in StageFilters : pipeline_view(u, f)

SpecPipeline == InitPipeline /\ [][NextPipeline]_vars

\* the sum of f over the set S of its arguments
RECURSIVE SumOver(_, _)
SumOver(f, S) ==
    IF S = {} THEN 0
    ELSE LET x == CHOOSE y \in S : TRUE IN f[x] + SumOver(f, S \ {x})

\* value * probability of every deal of the store (100 times v * p / 100)
ValueTimesProbability == [d \in DOMAIN Deals |-> Deals[d].value * Deals[d].probability]

DealValue == [d \in DOMAIN Deals |-> Deals[d].value]

DealProbability == [d \in DOMAIN Deals |-> Deals[d].probability]

\* C12: the derived weighted_value of a deal is value * probability / 100
\* for every deal, and the per-stage weighted sums of get_pipeline_analytics
\* and pipeline_view are sums of that same quantity over the deals they
\* aggregate.
C12_WeightedValueFormula ==
    /\ last.op = "weighted_value"
       => /\ last.result = "ok"
          /\ 100 * last.weighted_value = ValueTimesProbability[last.deal_id]
          /\ last.weighted_value <= Deals[last.deal_id].value
    /\ last.op = "get_pipeline_analytics"
       => \A s \in STAGE_CHOICES :
             100 * last.distribution[s].weighted_value =
                 SumOver(ValueTimesProbability,
                         {d \in DOMAIN Deals : Deals[d].status = "Active" /\ Deals[d].stage = s})
    /\ last.op = "pipeline_view"
       => \A s \in STAGE_CHOICES :
             100 * last.pipeline_data[s].weighted_value =
                 SumOver(ValueTimesProbability,
                         {d \in DOMAIN Deals :
                             /\ is_staff(last.user) \/ Deals[d].assigned_to = last.user
                             /\ last.stage_filter = "" \/ Deals[d].stage = last.stage_filter
                             /\ Deals[d].stage = s})

\* the deals pipeline_view selected for the request recorded in last
Selected ==
    {d \in DOMAIN Deals :
        /\ is_staff(last.user) \/ Deals[d].assigned_to = last.user
        /\ last.stage_filter = "" \/ Deals[d].stage = last.stage_filter}

\* the entry of stage s aggregates the set S of deals
Aggregates(entry, S) ==
    /\ entry.count = Cardinality(S)
    /\ 100 * entry.weighted_value = SumOver(ValueTimesProbability, S)

\* C13: every known stage has an entry, and the entry of stage s aggregates
\* exactly the deals with status Active and stage s (count, value, weighted
\* value, mean probability to one decimal; all 0 when there are none), in
\* get_pipeline_analytics and in pipeline_view.
C13_DistributionCountsActiveOnly ==
    /\ last.op = "get_pipeline_analytics"
       => /\ DOMAIN last.distribution = STAGE_CHOICES
          /\ \A s \in STAGE_CHOICES :
                LET S == {d \in DOMAIN Deals :
                             Deals[d].status = "Active" /\ Deals[d].stage = s}
                    e == last.distribution[s]
                IN  /\ Aggregates(e, S)
                    /\ e.value = SumOver(DealValue, S)
                    /\ S = {} => e.avg_probability = 0
                    /\ S # {} =>
                         LET diff == 10 * SumOver(DealProbability, S)
                                         - Cardinality(S) * e.avg_probability
                         IN  2 * diff <= Cardinality(S) /\ -2 * diff <= Cardinality(S)
    /\ last.op = "pipeline_view"
       => /\ DOMAIN last.pipeline_data = STAGE_CHOICES
          /\ \A s \in STAGE_CHOICES :
                LET S == {d \in Selected :
                             Deals[d].status = "Active" /\ Deals[d].stage = s}
                    e == last.pipeline_data[s]
                IN  /\ Aggregates(e, S)
                    /\ e.total_value = SumOver(DealValue, S)

(***************************************************************************)
(* Conversion rates and velocity over a pipeline-history log               *)
(* (sales/pipeline_logic.py PipelineManager)                               *)
(***************************************************************************)
\* the deals the rows of a log belong to
LogDeals == {1, 2, 3, 4}

\* the stage changes the rows of a log record
LogMoves == {<<"Lead", "Qualified">>, <<"Lead", "Lost">>, <<"Qualified", "Lead">>}

LogRows == {[deal_id |-> d, from_stage |-> m[1], to_stage |-> m[2]] :
               d \in LogDeals, m \in LogMoves}

\* hours between two consecutive rows of a log (changed_date is auto_now_add)
HoursApart == 36

HoursPerDay == 24

\* Deal.update_stage writes from_stage = the deal's stage, which is the
\* to_stage of the deal's previous row
ChainConsistent(f) ==
    \A i \in DOMAIN f : \A j \in DOMAIN f :
        (/\ i < j
         /\ f[i].deal_id = f[j].deal_id
         /\ \A k \in DOMAIN f : (i < k /\ k < j) => f[k].deal_id # f[i].deal_id)
        => f[j].from_stage = f[i].to_stage

\* the stage the rows of f leave deal d in (Lead, the field's default, without rows)
StageAfter(f, d) ==
    LET mine == {i \in DOMAIN f : f[i].deal_id = d}
    IN  IF mine = {} THEN "Lead"
        ELSE f[CHOOSE i \in mine : \A j \in mine : j <= i].to_stage

InitHistory ==
    /\ \E n \in 0..MaxLog : \E f \in [1..n -> LogRows] :
          /\ ChainConsistent(f)
          /\ db = [c \in Collections |->
                     IF c = "deals"
                     THEN [d \in 1..Cardinality(LogDeals) |->
                              [id |-> d, stage |-> StageAfter(f, d),
                               status |-> StageStatus(StageAfter(f, d)),
                               probability |-> StageProbability(StageAfter(f, d), 0),
                               value |-> 1000, assigned_to |-> "alice"]]
                     ELSE [i \in 1..n |->
                              Merge(HistoryData(f[i].deal_id, f[i].from_stage,
                                                f[i].to_stage, "alice"),
                                    [id |-> i, changed_date |-> HoursApart * i])]]
    /\ ids = [c \in Collections |-> Len(db[c])]
    /\ clock = 0
    /\ last = Rejected("init", 0, "ok")
    /\ pc = [p \in Procs |-> "idle"]
    /\ req = [p \in Procs |-> NoReq]

\* stages = ['Lead', 'Qualified', 'Proposal', 'Negotiation']
conversion_stages == <<"Lead", "Qualified", "Proposal", "Negotiation">>

\* QuerySet.count() of the rows of a table that pass a filter
count(rows, Test(_)) == Cardinality({i \in DOMAIN rows : Test(rows[i])})

\* (moved / total) * 100, kept to hundredths of a percent
percent(moved, total) == round_half_even(10000 * moved, total)

\* PipelineManager.calculate_conversion_rates
calculate_conversion_rates ==
    LET rows == db["pipeline_history"]
        deals == db["deals"]
        pairs == {i \in DOMAIN conversion_stages : i < Len(conversion_stages)}
        key(i) == conversion_stages[i] \o "_to_" \o conversion_stages[i + 1]
        rate(i) ==
            LET Moved(h) == h.from_stage = conversion_stages[i]
                            /\ h.to_stage = conversion_stages[i + 1]
                Left(h) == h.from_stage = conversion_stages[i]
                moved_deals == count(rows, Moved)
                total_deals == count(rows, Left)
            IN  IF total_deals > 0 THEN percent(moved_deals, total_deals) ELSE 0
        Closed(d) == d.status \in {"Won", "Lost"}
        Won(d) == d.status = "Won"
        total_closed == count(deals, Closed)
        total_won == count(deals, Won)
        win_rate == IF total_closed > 0 THEN percent(total_won, total_closed) ELSE 0
    IN  /\ last' = [op |-> "calculate_conversion_rates", result |-> "ok",
                    conversion_rates |->
                        [k \in {key(i) : i \in pairs} \cup {"win_rate"} |->
                            IF k = "win_rate" THEN win_rate
                            ELSE rate(CHOOSE i \in pairs : key(i) = k)]]
        /\ UNCHANGED <<db, ids, clock, pc, req>>

\* QuerySet.first() under Meta.ordering = ['-changed_date']: the id of the
\* row of S with the greatest changed_date, 0 (None) if S is empty
first(rows, S) ==
    IF S = {} THEN 0
    ELSE CHOOSE i \in S : \A j \in S : rows[j].changed_date <= rows[i].changed_date

\* timedelta.days of a difference given in hours
days(hours) == hours \div HoursPerDay

\* a list holding the members of the set S of numbers' indexes: f[i], i in S
RECURSIVE list_of(_, _)
list_of(f, S) ==
    IF S = {} THEN <<>>
    ELSE LET i == CHOOSE j \in S : \A k \in S : j <= k
         IN  <<f[i]>> \o list_of(f, S \ {i})

\* PipelineManager.calculate_velocity_metrics, "average time in each stage";
\* an average is kept to hundredths of a day
calculate_velocity_metrics ==
    LET rows == db["pipeline_history"]
        stage_histories(stage) == {i \in DOMAIN rows : rows[i].from_stage = stage}
        prev_history(i, stage) ==
            first(rows, {j \in DOMAIN rows :
                            rows[j].deal_id = rows[i].deal_id /\ rows[j].to_stage = stage})
        paired(stage) == {i \in stage_histories(stage) : prev_history(i, stage) # 0}
        time_in_stage ==
            [i \in DOMAIN rows |->
                LET prev == prev_history(i, rows[i].from_stage)
                IN  IF prev = 0 THEN 0
                    ELSE days(rows[i].changed_date - rows[prev].changed_date)]
        times(stage) == list_of(time_in_stage, paired(stage))
        timed == {stage \in STAGE_CHOICES : times(stage) # <<>>}
    IN  /\ last' = [op |-> "calculate_velocity_metrics", result |-> "ok",
                    times |-> [stage \in timed |-> times(stage)],
                    stage_times |->
                        [stage \in timed |->
                            round_half_even(100 * sum(times(stage)), Len(times(stage)))]]
        /\ UNCHANGED <<db, ids, clock, pc, req>>

NextHistory ==
    \/ calculate_conversion_rates
    \/ calculate_velocity_metrics
    \/ get_pipeline_analytics

SpecHistory == InitHistory /\ [][NextHistory]_vars

\* the history rows that leave stage s
Leaving(s) == {h \in DOMAIN History : History[h].from_stage = s}

\* the history rows that record a change from s to t
Moves(s, t) == {h \in Leaving(s) : History[h].to_stage = t}

\* C14: for each from_stage with an outgoing transition and each to_stage
\* that was reached from it, conversion_rates holds count(from -> to) /
\* count(from -> anything) * 100 (Lead: Qualified 75, Lost 25 for three
\* Lead -> Qualified and one Lead -> Lost).
C14_ConversionRates ==
    /\ last.op = "calculate_conversion_rates"
       => \A s \in STAGE_CHOICES : \A t \in STAGE_CHOICES :
             Moves(s, t) # {}
             => /\ (s \o "_to_" \o t) \in DOMAIN last.conversion_rates
                /\ last.conversion_rates[s \o "_to_" \o t] =
                       percent(Cardinality(Moves(s, t)), Cardinality(Leaving(s)))
    /\ last.op = "get_pipeline_analytics"
       => \A s \in STAGE_CHOICES : \A t \in STAGE_CHOICES :
             Moves(s, t) # {}
             => last.conversions[s][t] =
                    percent(Cardinality(Moves(s, t)), Cardinality(Leaving(s)))

\* the row that entered stage s for the deal of row h most recently before h
\* (0 if there is none)
EnteredBefore(h, s) ==
    LET S == {g \in DOMAIN History :
                 /\ History[g].deal_id = History[h].deal_id
                 /\ History[g].to_stage = s
                 /\ History[g].changed_date < History[h].changed_date}
    IN  IF S = {} THEN 0
        ELSE CHOOSE g \in S : \A k \in S : History[k].changed_date <= History[g].changed_date

\* the whole days row h's deal spent in the stage h leaves
DaysInStage ==
    [h \in DOMAIN History |->
        LET g == EnteredBefore(h, History[h].from_stage)
        IN  IF g = 0 THEN 0
            ELSE (History[h].changed_date - History[g].changed_date) \div HoursPerDay]

\* C15: the velocity of stage s is the mean, over the rows leaving s that
\* have a strictly earlier row of the same deal entering s, of the whole days
\* between the row and the most recent such entry; a stage without such rows
\* has 0 (or no entry).
C15_VelocityPairsWithEarlierEntry ==
    last.op = "calculate_velocity_metrics"
    => \A s \in STAGE_CHOICES :
          LET sample == {h \in Leaving(s) : EnteredBefore(h, s) # 0}
          IN  IF sample = {}
              THEN s \in DOMAIN last.stage_times => last.stage_times[s] = 0
              ELSE /\ s \in DOMAIN last.stage_times
                   /\ last.stage_times[s] =
                          round_half_even(100 * SumOver(DaysInStage, sample),
                                          Cardinality(sample))

(***************************************************************************)
(* Forecasts over a snapshot of deals with expected close dates            *)
(***************************************************************************)
\* a calendar date; "YYYY-MM-DD" strings and date objects alike
Date(y, m, d) == [year |-> y, month |-> m, day |-> d]

IsLeap(y) == (y % 4 = 0 /\ y % 100 # 0) \/ y % 400 = 0

DaysInMonth(y, m) ==
    IF m = 2 THEN (IF IsLeap(y) THEN 29 ELSE 28)
    ELSE IF m \in {4, 6, 9, 11} THEN 30 ELSE 31

\* date + timedelta(days=n), n >= 0
RECURSIVE add_days(_, _)
add_days(date, n) ==
    LET left == DaysInMonth(date.year, date.month) - date.day
    IN  IF n <= left THEN Date(date.year, date.month, date.day + n)
        ELSE add_days(IF date.month = 12 THEN Date(date.year + 1, 1, 1)
                      ELSE Date(date.year, date.month + 1, 1),
                      n - left - 1)

\* date - timedelta(days=n), n >= 0
RECURSIVE sub_days(_, _)
sub_days(date, n) ==
    IF n < date.day THEN Date(date.year, date.month, date.day - n)
    ELSE LET y == IF date.month = 1 THEN date.year - 1 ELSE date.year
             m == IF date.month = 1 THEN 12 ELSE date.month - 1
         IN  sub_days(Date(y, m, DaysInMonth(y, m)), n - date.day)

\* a < b on dates
Before(a, b) ==
    \/ a.year < b.year
    \/ a.year = b.year /\ a.month < b.month
    \/ a.year = b.year /\ a.month = b.month /\ a.day < b.day

\* the values datetime.now() has when a forecast is requested
NowDates == {Date(2025, 1, 1), Date(2025, 1, 15), Date(2025, 1, 31)}

\* the documents a forecast snapshot can hold: (status, expected_close,
\* value, probability)
ForecastDocs ==
    <<<<"Active", Date(2025, 2, 15), 1000, 80>>,
      <<"Active", Date(2025, 2, 15), 2000, 50>>,
      <<"Active", Date(2025, 2, 15), 3000, 90>>,
      <<"Active", Date(2025, 1, 20), 500, 69>>,
      <<"Active", Date(2025, 1, 20), 500, 70>>,
      <<"Won", Date(2025, 2, 15), 1000, 80>>>>

\* the k-th of them as a deal document
ForecastDoc(k) ==
    LET t == ForecastDocs[k]
    IN  [status |-> t[1], expected_close |-> t[2], value |-> t[3], probability |-> t[4],
         stage |-> IF t[1] = "Won" THEN "Won" ELSE "Proposal", assigned_to |-> "alice"]

\* the deals collection holds up to MaxRows such documents (one list for
\* every multiset of documents), no forecast is stored, and the clock shows
\* one of NowDates
InitForecast ==
    /\ \E n \in 0..MaxRows :
          \E f \in [1..n -> DOMAIN ForecastDocs] :
             /\ \A i \in 1..n : \A j \in 1..n : i < j => f[i] <= f[j]
             /\ db = [c \in Collections \cup {"sales_forecast"} |->
                        IF c = "deals"
                        THEN [i \in 1..n |-> Merge(ForecastDoc(f[i]), [id |-> i])]
                        ELSE <<>>]
    /\ ids = [c \in Collections |-> Len(db[c])]
    /\ clock \in NowDates
    /\ last = Rejected("init", 0, "ok")
    /\ pc = [p \in Procs |-> "idle"]
    /\ req = [p \in Procs |-> NoReq]

\* timedelta(days=30*i), timedelta(days=90*i), timedelta(days=365*i)
MonthStep == 30

QuarterStep == 90

YearStep == 365

\* probability >= 70 counts as expected revenue
HighProbability == 70

\* range(6) of sales_forecast, periods=6 of get_forecast_data
DefaultPeriods == 6

\* forecast_date.strftime('%Y-%m')
month_key(date) == [type |-> "month", year |-> date.year, n |-> date.month]

\* f"{year}-Q{quarter}"
quarter_key(year, quarter) == [type |-> "quarter", year |-> year, n |-> quarter]

\* str(forecast_date.year)
year_key(date) == [type |-> "year", year |-> date.year, n |-> 0]

\* expected_close.startswith(period_key[:7]) for an ISO date string:
\* "YYYY-MM" matches the dates of that month, "YYYY" those of that year, and
\* "YYYY-Qn" no date at all (its sixth character is a letter)
starts_with(expected_close, period_key) ==
    CASE period_key.type = "month" ->
            expected_close.year = period_key.year /\ expected_close.month = period_key.n
      [] period_key.type = "quarter" -> FALSE
      [] period_key.type = "year" -> expected_close.year = period_key.year

\* the three sums over the deals of a period
forecast_metrics(period_key, period_deals) ==
    LET n == Len(period_deals)
        High(d) == d.probability >= HighProbability
        high == SelectSeq(period_deals, High)
    IN  [period |-> period_key,
         total_pipeline |-> sum([i \in 1..n |-> period_deals[i].value]),
         weighted_pipeline |-> sum([i \in 1..n |-> doc_weighted(period_deals[i])]),
         expected_revenue |-> sum([i \in 1..Len(high) |-> high[i].value])]

\* horizons a caller asks for
Horizons == {1, DefaultPeriods, 12}

PeriodTypes == {"monthly", "quarterly", "yearly"}

\* DataProcessor.get_forecast_data: datetime.now() is read once in every
\* iteration; the iterations from number 'midnight' on read the next day
get_forecast_data(periods, period_type, midnight) ==
    LET deals == get_records("deals")
        IsActive(d) == d.status = "Active"
        active_deals == SelectSeq(deals, IsActive)
        now(i) == IF i >= midnight THEN add_days(clock, 1) ELSE clock
        period_key(i) ==
            IF period_type = "monthly"
            THEN month_key(add_days(now(i), MonthStep * i))
            ELSE IF period_type = "quarterly"
            THEN LET forecast_date == add_days(now(i), QuarterStep * i)
                 IN  quarter_key(forecast_date.year, ((forecast_date.month - 1) \div 3) + 1)
            ELSE year_key(add_days(now(i), YearStep * i))
        forecast(key) ==
            LET InPeriod(d) == starts_with(d.expected_close, key)
            IN  forecast_metrics(key, SelectSeq(active_deals, InPeriod))
    IN  /\ last' = [op |-> "get_forecast_data", result |-> "ok", now |-> clock,
                    periods |-> periods, period_type |-> period_type,
                    forecasts |-> [k \in 1..periods |-> forecast(period_key(k - 1))]]
        /\ UNCHANGED <<db, ids, clock, pc, req>>

\* sales/views.py sales_forecast (GET)
sales_forecast(u, period_type) ==
    LET deals == get_records("deals")
        current_date == clock
        period(i) ==
            IF period_type = "monthly"
            THEN month_key(add_days(current_date, MonthStep * i))
            ELSE LET quarter == ((current_date.month + i * 3 - 1) \div 3) + 1
                     year == current_date.year + ((current_date.month + i * 3 - 1) \div 12)
                 IN  quarter_key(year, (quarter % 4) + 1)
        forecast(key) ==
            LET InPeriod(d) == starts_with(d.expected_close, key)
            IN  forecast_metrics(key, SelectSeq(deals, InPeriod))
    IN  /\ IF ~role_required(u)
           THEN last' = [op |-> "sales_forecast", result |-> "denied"]
           ELSE last' = [op |-> "sales_forecast", result |-> "ok", now |-> clock,
                         periods |-> DefaultPeriods, period_type |-> period_type,
                         forecasts |-> [k \in 1..DefaultPeriods |-> forecast(period(k - 1))]]
        /\ UNCHANGED <<db, ids, clock, pc, req>>

\* the periods generate_forecast is asked for
ForecastPeriodInputs == {month_key(Date(2025, 2, 1)), quarter_key(2025, 1)}

\* [start_date, end_date) of a period, by calendar month or quarter
start_date(period) ==
    IF period.type = "month" THEN Date(period.year, period.n, 1)
    ELSE Date(period.year, (period.n - 1) * 3 + 1, 1)

end_date(period) ==
    IF period.type = "month"
    THEN (IF period.n = 12 THEN Date(period.year + 1, 1, 1)
          ELSE Date(period.year, period.n + 1, 1))
    ELSE (IF period.n = 4 THEN Date(period.year + 1, 1, 1)
          ELSE Date(period.year, (period.n - 1) * 3 + 1 + 3, 1))

\* SalesForecast.generate_forecast: the deals are rows loaded from the
\* database, whose value is a Decimal
generate_forecast(period) ==
    LET InRange(d) == /\ ~Before(d.expected_close, start_date(period))
                      /\ Before(d.expected_close, end_date(period))
                      /\ d.status = "Active"
        deals == SelectSeq(db["deals"], InRange)
        metrics == forecast_metrics(period, deals)
        rows == db["sales_forecast"]
        found == {i \in DOMAIN rows : rows[i].period = period}
    IN  IF deals # <<>> /\ mul_type("Decimal", "float") = "TypeError"
        THEN /\ last' = [op |-> "generate_forecast", result |-> "TypeError",
                         period |-> period]
             /\ UNCHANGED <<db, ids, clock, pc, req>>
        ELSE /\ db' = [db EXCEPT !["sales_forecast"] =
                         IF found = {} THEN Append(rows, metrics)
                         ELSE [i \in DOMAIN rows |->
                                  IF i \in found THEN metrics ELSE rows[i]]]
             /\ last' = [op |-> "generate_forecast", result |-> "ok", period |-> period,
                         forecast |-> metrics]
             /\ UNCHANGED <<ids, clock, pc, req>>

NextForecast ==
    \/ \E n \in Horizons, t \in PeriodTypes : \E m \in {1, n} : get_forecast_data(n, t, m)
    \/ \E u \in Users, t \in {"monthly", "quarterly"} : sales_forecast(u, t)
    \/ \E p \in ForecastPeriodInputs : generate_forecast(p)

SpecForecast == InitForecast /\ [][NextForecast]_vars

\* the deals whose expected_close matches a period key
Matching(key) ==
    {d \in DOMAIN Deals : starts_with(Deals[d].expected_close, key)}

\* the Active deals whose expected_close lies in [start, end)
ActiveBetween(start, end) ==
    {d \in DOMAIN Deals :
        /\ Deals[d].status = "Active"
        /\ ~Before(Deals[d].expected_close, start)
        /\ Before(Deals[d].expected_close, end)}

\* forecast f holds the three sums over the set D of deals
SumsOver(f, D) ==
    /\ f.total_pipeline = SumOver(DealValue, D)
    /\ 100 * f.weighted_pipeline = SumOver(ValueTimesProbability, D)
    /\ f.expected_revenue =
           SumOver(DealValue, {d \in D : Deals[d].probability >= HighProbability})

ForecastOps == {"get_forecast_data", "sales_forecast"}

\* C16: every forecast holds, over the deals selected for its period, the
\* sum of value, the sum of value * probability / 100 and the sum of value
\* over the deals with probability >= 70 (1000/80, 2000/50, 3000/90 in one
\* month: 6000, 4500, 4000).
C16_ForecastSums ==
    /\ (last.op = "get_forecast_data" /\ last.result = "ok")
       => \A k \in DOMAIN last.forecasts :
             SumsOver(last.forecasts[k],
                      {d \in Matching(last.forecasts[k].period) :
                          Deals[d].status = "Active"})
    /\ (last.op = "sales_forecast" /\ last.result = "ok")
       => \A k \in DOMAIN last.forecasts :
             SumsOver(last.forecasts[k], Matching(last.forecasts[k].period))
    /\ last.op = "generate_forecast"
       => /\ last.result = "ok"
          /\ SumsOver(last.forecast,
                      ActiveBetween(start_date(last.period), end_date(last.period)))

\* the number of a month or quarter on the calendar
PeriodNumber(key) ==
    IF key.type = "month" THEN key.year * 12 + key.n - 1 ELSE key.year * 4 + key.n - 1

\* the calendar month or quarter of a date
PeriodOf(date, period_type) ==
    IF period_type = "monthly" THEN month_key(date)
    ELSE quarter_key(date.year, ((date.month - 1) \div 3) + 1)

\* C17: the periods of a monthly or quarterly forecast are the consecutive
\* calendar months or quarters starting with the current one, and each
\* period counts exactly the Active deals whose expected_close lies within
\* its calendar bounds.
C17_PeriodsAreCalendarPeriods ==
    (last.op \in ForecastOps /\ last.result = "ok"
     /\ last.period_type \in {"monthly", "quarterly"})
    => \A k \in DOMAIN last.forecasts :
          LET key == last.forecasts[k].period
          IN  /\ PeriodNumber(key) = PeriodNumber(PeriodOf(last.now, last.period_type)) + k - 1
              /\ last.forecasts[k].total_pipeline =
                     SumOver(DealValue, ActiveBetween(start_date(key), end_date(key)))

\* C18: a deal whose status is not Active adds nothing to any period: the
\* figures of every period are those of its Active deals alone.
C18_OnlyActiveDealsForecast ==
    /\ (last.op \in ForecastOps /\ last.result = "ok")
       => \A k \in DOMAIN last.forecasts :
             SumsOver(last.forecasts[k],
                      {d \in Matching(last.forecasts[k].period) :
                          Deals[d].status = "Active"})
    /\ (last.op = "generate_forecast" /\ last.result = "ok")
       => last.forecast.total_pipeline =
              SumOver(DealValue, ActiveBetween(start_date(last.period),
                                               end_date(last.period)))

\* the period of iteration i when the clock is read as t
KeyFrom(t, period_type, i) ==
    IF period_type = "monthly" THEN month_key(add_days(t, MonthStep * i))
    ELSE IF period_type = "quarterly"
    THEN PeriodOf(add_days(t, QuarterStep * i), "quarterly")
    ELSE year_key(add_days(t, YearStep * i))

\* C19: all periods of one get_forecast_data call are computed from a single
\* value of 'now', so the result is determined by the snapshot, the period
\* type, the horizon and that value.
C19_SingleNow ==
    last.op = "get_forecast_data"
    => \E t \in {last.now, add_days(last.now, 1)} :
          \A k \in DOMAIN last.forecasts :
             last.forecasts[k].period = KeyFrom(t, last.period_type, k - 1)

(***************************************************************************)
(* Dashboard and deal metrics over snapshots of customers, deals and       *)
(* activities                                                              *)
(***************************************************************************)
\* the day datetime.now() shows
DashboardToday == Date(2025, 6, 15)

\* the documents the three collections can hold (ISO strings of one format
\* compare as their dates do)
DashCustomers ==
    <<[status |-> "Active", assigned_to |-> "alice", created_date |-> Date(2025, 6, 5)],
      [status |-> "Lead", assigned_to |-> "bob", created_date |-> Date(2025, 3, 7)]>>

DashDeals ==
    <<[status |-> "Active", assigned_to |-> "alice", value |-> 1000,
       probability |-> 75, updated_date |-> Date(2025, 6, 5)],
      [status |-> "Won", assigned_to |-> "alice", value |-> 3000,
       probability |-> 100, updated_date |-> Date(2025, 6, 5)],
      [status |-> "Won", assigned_to |-> "bob", value |-> 1000,
       probability |-> 100, updated_date |-> Date(2025, 3, 7)],
      [status |-> "Lost", assigned_to |-> "bob", value |-> 1000,
       probability |-> 0, updated_date |-> Date(2025, 3, 7)]>>

DashActivities ==
    <<[completed |-> TRUE, assigned_to |-> "alice"],
      [completed |-> FALSE, assigned_to |-> "bob"]>>

\* the lists of up to MaxDeals of the documents docs, one per multiset
ListsOf(docs) ==
    UNION {{[i \in 1..n |-> docs[f[i]]] :
               f \in {g \in [1..n -> DOMAIN docs] :
                         \A i \in 1..n : \A j \in 1..n : i < j => g[i] <= g[j]}} :
           n \in 0..MaxDeals}

DashCollections == {"customers", "deals", "sales_activities"}

InitDashboard ==
    /\ \E cs \in ListsOf(DashCustomers), ds \in ListsOf(DashDeals),
          as \in ListsOf(DashActivities) :
          db = [c \in DashCollections |->
                   IF c = "customers" THEN cs ELSE IF c = "deals" THEN ds ELSE as]
    /\ ids = [c \in Collections |-> 0]
    /\ clock = DashboardToday
    /\ last = Rejected("init", 0, "ok")
    /\ pc = [p \in Procs |-> "idle"]
    /\ req = [p \in Procs |-> NoReq]

\* the test in front of a division with the denominator replaced by TRUE
rate_guardMut(den) == TRUE

\* the test in front of every division: "if total > 0", "if closed_deals > 0",
\* "if activities", "if deals"
rate_guard(den) == den > 0

\* num / den * 100 rounded to two decimals (in hundredths); Python raises
\* ZeroDivisionError for den = 0
py_percent(num, den) ==
    IF den = 0 THEN [raised |-> TRUE, value |-> 0]
    ELSE [raised |-> FALSE, value |-> percent(num, den)]

\* num / den, kept to hundredths
py_divide(num, den) ==
    IF den = 0 THEN [raised |-> TRUE, value |-> 0]
    ELSE [raised |-> FALSE, value |-> round_half_even(100 * num, den)]

\* "x if test else 0" and "if test: x" over the initial 0
guarded(test, x) == IF test THEN x ELSE [raised |-> FALSE, value |-> 0]

\* the 'period' argument to the number of days before now
period_days(period) ==
    CASE period = "today" -> 0
      [] period = "week" -> 7
      [] period = "month" -> 30
      [] period = "quarter" -> 90
      [] period = "year" -> 365
      [] OTHER -> 30

DashboardPeriods == {"month", "year"}

\* user=None
NoUser == ""

\* len([x for x in xs if Test(x)])
len_if(xs, Test(_)) == Len(SelectSeq(xs, Test))

\* sum([x.get('value', 0) for x in xs])
sum_value(xs) == sum([i \in 1..Len(xs) |-> xs[i].value])

\* DataProcessor.get_dashboard_metrics
get_dashboard_metrics(user, period) ==
    LET Mine(x) == x.assigned_to = user
        filter == user # NoUser /\ ~is_staff(user)
        customers == IF filter THEN SelectSeq(get_records("customers"), Mine)
                     ELSE get_records("customers")
        deals == IF filter THEN SelectSeq(get_records("deals"), Mine)
                 ELSE get_records("deals")
        activities == IF filter THEN SelectSeq(get_records("sales_activities"), Mine)
                      ELSE get_records("sales_activities")
        end == clock
        start == sub_days(end, period_days(period))
        New(c) == ~Before(c.created_date, start)
        IsActive(x) == x.status = "Active"
        IsWon(x) == x.status = "Won"
        IsLost(x) == x.status = "Lost"
        won_deals == SelectSeq(deals, IsWon)
        lost_deals == SelectSeq(deals, IsLost)
        active_deals == SelectSeq(deals, IsActive)
        conversion_rate == guarded(rate_guard(Len(customers)),
                                   py_percent(len_if(customers, IsActive), Len(customers)))
        avg_deal_size == guarded(rate_guard(Len(deals)),
                                 py_divide(sum_value(deals), Len(deals)))
        closed_deals == Len(won_deals) + Len(lost_deals)
        win_rate == guarded(rate_guard(closed_deals),
                            py_percent(Len(won_deals), closed_deals))
        Completed(a) == a.completed
        completed_activities == SelectSeq(activities, Completed)
        completion_rate == guarded(rate_guard(Len(activities)),
                                   py_percent(Len(completed_activities), Len(activities)))
        Recent(d) == ~Before(d.updated_date, start)
        High(d) == d.probability >= HighProbability
    IN  /\ last' =
             IF conversion_rate.raised \/ avg_deal_size.raised \/ win_rate.raised
                \/ completion_rate.raised
             THEN [op |-> "get_dashboard_metrics", result |-> "ZeroDivisionError"]
             ELSE [op |-> "get_dashboard_metrics", result |-> "ok",
                   customers |->
                       [total |-> Len(customers),
                        new_period |-> len_if(customers, New),
                        by_status |->
                            [st \in {"Lead", "Prospect", "Active", "Inactive"} |->
                                LET Has(c) == c.status = st IN len_if(customers, Has)],
                        conversion_rate |-> conversion_rate.value],
                   deals |->
                       [total |-> Len(deals), active |-> Len(active_deals),
                        won |-> Len(won_deals), lost |-> Len(lost_deals),
                        total_value |-> sum_value(deals),
                        won_value |-> sum_value(won_deals),
                        pipeline_value |-> sum_value(active_deals),
                        avg_deal_size |-> avg_deal_size.value,
                        win_rate |-> win_rate.value],
                   activities |->
                       [total |-> Len(activities),
                        completed |-> Len(completed_activities),
                        pending |-> Len(activities) - Len(completed_activities),
                        overdue |-> 0,
                        completion_rate |-> completion_rate.value],
                   revenue |->
                       [total |-> sum_value(won_deals),
                        period |-> sum_value(SelectSeq(won_deals, Recent)),
                        forecast |-> sum_value(SelectSeq(deals, High))],
                   period |-> period,
                   date_range |-> [start |-> start, end |-> end]]
        /\ UNCHANGED <<db, ids, clock, pc, req>>

\* core/utils.py calculate_deal_metrics, applied to the deals collection
calculate_deal_metrics ==
    LET deals == get_records("deals")
        IsActive(x) == x.status = "Active"
        IsWon(x) == x.status = "Won"
        IsLost(x) == x.status = "Lost"
        deals_won == SelectSeq(deals, IsWon)
        deals_lost == SelectSeq(deals, IsLost)
        deals_active == SelectSeq(deals, IsActive)
        closed_deals == Len(deals_won) + Len(deals_lost)
        win_rate == guarded(rate_guard(closed_deals),
                            py_percent(Len(deals_won), closed_deals))
        average_value == guarded(rate_guard(Len(deals)),
                                 py_divide(sum_value(deals), Len(deals)))
    IN  /\ last' =
             IF deals = <<>>
             THEN [op |-> "calculate_deal_metrics", result |-> "ok",
                   total_value |-> 0, average_value |-> 0, win_rate |-> 0,
                   total_deals |-> 0, deals_won |-> 0, deals_lost |-> 0,
                   deals_active |-> 0]
             ELSE IF win_rate.raised \/ average_value.raised
             THEN [op |-> "calculate_deal_metrics", result |-> "ZeroDivisionError"]
             ELSE [op |-> "calculate_deal_metrics", result |-> "ok",
                   total_value |-> sum_value(deals),
                   average_value |-> average_value.value,
                   win_rate |-> win_rate.value,
                   total_deals |-> Len(deals), deals_won |-> Len(deals_won),
                   deals_lost |-> Len(deals_lost), deals_active |-> Len(deals_active)]
        /\ UNCHANGED <<db, ids, clock, pc, req>>

NextDashboard ==
    \/ \E u \in Users \cup {NoUser}, p \in DashboardPeriods : get_dashboard_metrics(u, p)
    \/ calculate_deal_metrics

SpecDashboard == InitDashboard /\ [][NextDashboard]_vars

\* C20: the dashboard and deal metrics never raise, and each rate or average
\* is exactly 0 when its denominator is 0: win_rate without Won or Lost
\* deals, completion_rate without activities, conversion_rate without
\* customers, avg_deal_size without deals; with no deals, customers and
\* activities every count, sum and rate is 0.
C20_ZeroDenominatorGivesZero ==
    /\ last.op = "get_dashboard_metrics"
       => /\ last.result = "ok"
          /\ last.deals.won + last.deals.lost = 0 => last.deals.win_rate = 0
          /\ last.activities.total = 0 => last.activities.completion_rate = 0
          /\ last.customers.total = 0 => last.customers.conversion_rate = 0
          /\ last.deals.total = 0 => last.deals.avg_deal_size = 0
          /\ (last.deals.total = 0 /\ last.customers.total = 0
              /\ last.activities.total = 0)
             => /\ \A k \in DOMAIN last.customers \ {"by_status"} : last.customers[k] = 0
                /\ \A st \in DOMAIN last.customers.by_status :
                      last.customers.by_status[st] = 0
                /\ \A k \in DOMAIN last.deals : last.deals[k] = 0
                /\ \A k \in DOMAIN last.activities : last.activities[k] = 0
                /\ \A k \in DOMAIN last.revenue : last.revenue[k] = 0
    /\ last.op = "calculate_deal_metrics"
       => /\ last.result = "ok"
          /\ last.deals_won + last.deals_lost = 0 => last.win_rate = 0
          /\ last.total_deals = 0
             => \A k \in DOMAIN last \ {"op", "result"} : last[k] = 0

\* C20 witness: the dashboard was computed over deals none of which is
\* closed, with no customers and no activities, and the three rates are 0.
C20_Witness ==
    /\ last.op = "get_dashboard_metrics"
    /\ last.result = "ok"
    /\ last.deals.total > 0
    /\ last.deals.won + last.deals.lost = 0
    /\ last.deals.win_rate = 0
    /\ last.customers.total = 0
    /\ last.customers.conversion_rate = 0
    /\ last.activities.total = 0
    /\ last.activities.completion_rate = 0

(***************************************************************************)
(* The aggregation operations together, over one store                     *)
(***************************************************************************)
\* the deal documents of the store the aggregations read
AggDeals ==
    <<[stage |-> "Lead", status |-> "Active", assigned_to |-> "alice", value |-> 1000,
       probability |-> 75, expected_close |-> Date(2025, 7, 10),
       created_date |-> Date(2025, 6, 5), updated_date |-> Date(2025, 6, 5)],
      [stage |-> "Won", status |-> "Won", assigned_to |-> "bob", value |-> 3000,
       probability |-> 100, expected_close |-> Date(2025, 6, 20),
       created_date |-> Date(2025, 3, 7), updated_date |-> Date(2025, 6, 5)]>>

AggCustomers == <<[status |-> "Active", assigned_to |-> "alice",
                   created_date |-> Date(2025, 6, 5)]>>

AggActivities == <<[completed |-> TRUE, assigned_to |-> "alice"]>>

AggHistory == <<HistoryData(1, "New", "Lead", "alice")>>

\* a collection holds none or some of its documents
Prefixes(docs) == {SubSeq(docs, 1, n) : n \in 0..Len(docs)}

AggCollections == DashCollections \cup {"pipeline_history"}

InitAggregate ==
    /\ \E cs \in Prefixes(AggCustomers), ds \in ListsOf(AggDeals),
          as \in Prefixes(AggActivities), hs \in Prefixes(AggHistory) :
          db = [c \in AggCollections |->
                   IF c = "customers" THEN cs
                   ELSE IF c = "deals" THEN ds
                   ELSE IF c = "sales_activities" THEN as ELSE hs]
    /\ ids = [c \in Collections |-> Len(db[c])]
    /\ clock = DashboardToday
    /\ last = Rejected("init", 0, "ok")
    /\ pc = [p \in Procs |-> "idle"]
    /\ req = [p \in Procs |-> NoReq]

\* the number of the day in its year, from 0 (tm_yday - 1)
RECURSIVE days_before_month(_, _)
days_before_month(y, m) ==
    IF m = 1 THEN 0 ELSE days_before_month(y, m - 1) + DaysInMonth(y, m - 1)

\* the weekday of 1 January of year y >= 2024, Sunday = 0 (2024-01-01 is a Monday)
RECURSIVE jan1_weekday(_)
jan1_weekday(y) ==
    IF y <= 2024 THEN 1
    ELSE (jan1_weekday(y - 1) + (IF IsLeap(y - 1) THEN 366 ELSE 365)) % 7

\* strftime('%Y-W%U'): weeks of the year that start on Sunday
week_key(date) ==
    LET yday == days_before_month(date.year, date.month) + date.day - 1
        wday == (jan1_weekday(date.year) + yday) % 7
    IN  [type |-> "week", year |-> date.year, n |-> (yday + 7 - wday) \div 7]

\* sorted(trends.keys()): keys of one format sort by year, then number
RECURSIVE sorted_keys(_)
sorted_keys(S) ==
    IF S = {} THEN <<>>
    ELSE LET k == CHOOSE x \in S : \A y \in S :
                     x.year < y.year \/ (x.year = y.year /\ x.n <= y.n)
         IN  <<k>> \o sorted_keys(S \ {k})

TrendPeriods == {"week", "month", "quarter"}

\* the days get_sales_trends looks back
trend_days(period) ==
    CASE period = "week" -> 7 * 12
      [] period = "quarter" -> 365 * 2
      [] OTHER -> 365

\* get_sales_trends that also stores each deal's period key in the deal
get_sales_trendsMut(period, user) ==
    /\ db' = [db EXCEPT !["deals"] =
                 [i \in DOMAIN @ |-> Merge(@[i], [period_key |-> period])]]
    /\ last' = [op |-> "get_sales_trends", result |-> "ok", period |-> period]
    /\ UNCHANGED <<ids, clock, pc, req>>

\* DataProcessor.get_sales_trends
get_sales_trends(period, user) ==
    LET Mine(x) == x.assigned_to = user
        all == get_records("deals")
        deals == IF user # NoUser /\ ~is_staff(user) THEN SelectSeq(all, Mine) ELSE all
        start == sub_days(clock, trend_days(period))
        InRange(d) == ~Before(d.created_date, start)
        filtered_deals == SelectSeq(deals, InRange)
        period_key(d) ==
            IF period = "quarter"
            THEN quarter_key(d.created_date.year, ((d.created_date.month - 1) \div 3) + 1)
            ELSE IF period = "week" THEN week_key(d.created_date)
            ELSE month_key(d.created_date)
        key == [i \in DOMAIN filtered_deals |-> period_key(filtered_deals[i])]
        keys == {key[i] : i \in DOMAIN key}
        sorted_periods == sorted_keys(keys)
        At(k, status) ==
            {i \in DOMAIN key :
                /\ key[i] = k
                /\ status = "" \/ filtered_deals[i].status = status}
        Value == [i \in DOMAIN filtered_deals |-> filtered_deals[i].value]
        n == Len(sorted_periods)
    IN  /\ last' = [op |-> "get_sales_trends", result |-> "ok", period |-> period,
                    labels |-> sorted_periods,
                    revenue |-> [j \in 1..n |-> SumOver(Value, At(sorted_periods[j], "Won"))],
                    deals |-> [j \in 1..n |-> Cardinality(At(sorted_periods[j], ""))],
                    won_deals |-> [j \in 1..n |-> Cardinality(At(sorted_periods[j], "Won"))],
                    pipeline_value |->
                        [j \in 1..n |-> SumOver(Value, At(sorted_periods[j], "Active"))]]
        /\ UNCHANGED <<db, ids, clock, pc, req>>

NextAggregate ==
    \/ \E u \in {NoUser, "alice"} : get_dashboard_metrics(u, "month")
    \/ get_pipeline_analytics
    \/ \E t \in PeriodTypes : get_forecast_data(DefaultPeriods, t, DefaultPeriods)
    \/ \E p \in TrendPeriods, u \in {NoUser, "alice"} : get_sales_trends(p, u)

SpecAggregate == InitAggregate /\ [][NextAggregate]_vars

NoDate == Date(0, 0, 0)

\* date.toordinal(), counted from 2024-01-01
RECURSIVE ordinal_of_year(_)
ordinal_of_year(y) ==
    IF y <= 2024 THEN 0
    ELSE ordinal_of_year(y - 1) + (IF IsLeap(y - 1) THEN 366 ELSE 365)

ordinal(date) ==
    ordinal_of_year(date.year) + days_before_month(date.year, date.month) + date.day

\* (a - b).days for dates
days_between(a, b) == ordinal(a) - ordinal(b)

\* (days since created_date, days since updated_date) of the deal
AdvisorAges == {<<40, 40>>, <<40, 3>>, <<10, 3>>}

\* stage and probability of the deal
AdvisorStages == {"Lead", "Proposal", "Won"}

AdvisorProbabilities == {3, 10, 50}

\* days from now to expected_close; -1 stands for no expected_close
AdvisorCloseIn == {-1, 5, 60}

\* days since the deal's only activity
AdvisorActivityAges == {2, 20}

\* one deal and one activity on it
InitAdvisor ==
    /\ \E ages \in AdvisorAges, st \in AdvisorStages, pr \in AdvisorProbabilities,
          cl \in AdvisorCloseIn, act \in AdvisorActivityAges :
          db = [c \in {"deals", "sales_activities", "pipeline_history"} |->
                   IF c = "deals"
                   THEN <<[id |-> 1, stage |-> st, status |-> StageStatus(st),
                           probability |-> pr, value |-> 1000, assigned_to |-> "alice",
                           created_date |-> sub_days(DashboardToday, ages[1]),
                           updated_date |-> sub_days(DashboardToday, ages[2]),
                           expected_close |-> IF cl < 0 THEN NoDate
                                              ELSE add_days(DashboardToday, cl)]>>
                   ELSE IF c = "sales_activities"
                   THEN <<[id |-> 1, deal_id |-> 1,
                           created_date |-> sub_days(DashboardToday, act)]>>
                   ELSE <<>>]
    /\ ids = [c \in Collections |-> Len(db[c])]
    /\ clock = DashboardToday
    /\ last = Rejected("init", 0, "ok")
    /\ pc = [p \in Procs |-> "idle"]
    /\ req = [p \in Procs |-> NoReq]

\* expected_probabilities: (min_prob, max_prob) per stage
expected_probabilities ==
    [Lead |-> <<5, 20>>, Qualified |-> <<20, 40>>, Proposal |-> <<40, 60>>,
     Negotiation |-> <<60, 90>>]

\* days without a stage change from which a deal is stagnant
StagnantDays == 14

\* days before expected_close in which the close is approaching, and days
\* an activity counts as recent
CloseSoonDays == 7

\* a recommendation, by its type and the rule that appended it
Recommendation(type, rule) == [type |-> type, rule |-> rule]

\* PipelineManager.get_deal_recommendations(deal)
get_deal_recommendations(deal_id) ==
    LET deal == db["deals"][deal_id]
        today == clock
        days_in_stage == days_between(today, deal.updated_date)
        stagnant == IF days_in_stage > StagnantDays
                    THEN <<Recommendation("warning", "stagnant")>> ELSE <<>>
        days_to_close == days_between(deal.expected_close, today)
        closing == IF deal.expected_close # NoDate
                      /\ 0 < days_to_close /\ days_to_close <= CloseSoonDays
                   THEN <<Recommendation("urgent", "close_approaching")>> ELSE <<>>
        alignment ==
            IF deal.stage \in DOMAIN expected_probabilities
            THEN (IF deal.probability < expected_probabilities[deal.stage][1]
                  THEN <<Recommendation("info", "probability_low")>>
                  ELSE IF deal.probability > expected_probabilities[deal.stage][2]
                  THEN <<Recommendation("success", "probability_high")>>
                  ELSE <<>>)
            ELSE <<>>
        since == sub_days(today, CloseSoonDays)
        recent_activities ==
            Cardinality({a \in DOMAIN db["sales_activities"] :
                            /\ db["sales_activities"][a].deal_id = deal_id
                            /\ ~Before(db["sales_activities"][a].created_date, since)})
        untouched == IF recent_activities = 0
                     THEN <<Recommendation("warning", "no_recent_activities")>> ELSE <<>>
    IN  /\ deal_id \in DOMAIN db["deals"]
        /\ last' = [op |-> "get_deal_recommendations", result |-> "ok",
                    deal_id |-> deal_id,
                    recommendations |-> stagnant \o closing \o alignment \o untouched]
        /\ UNCHANGED <<db, ids, clock, pc, req>>

\* history[:10], activities[:10]
DetailRows == 10

\* sales/views.py deal_detail (GET)
deal_detail(u, deal_id) ==
    LET deal == find_deal(get_records("deals"), deal_id)
        OfDeal(x) == x.deal_id = deal_id
        firstrows(xs) == SubSeq(xs, 1, IF Len(xs) < DetailRows THEN Len(xs) ELSE DetailRows)
        d == db["deals"][deal]
    IN  /\ is_authenticated(u)
        /\ last' =
             IF deal = 0 THEN [op |-> "deal_detail", result |-> "not_found", deal_id |-> deal_id]
             ELSE IF ~is_staff(u) /\ d.assigned_to # u
             THEN [op |-> "deal_detail", result |-> "denied", deal_id |-> deal_id]
             ELSE [op |-> "deal_detail", result |-> "ok", deal_id |-> deal_id,
                   history |-> firstrows(SelectSeq(get_records("pipeline_history"), OfDeal)),
                   activities |-> firstrows(SelectSeq(get_records("sales_activities"), OfDeal)),
                   recommendations |->
                       IF d.probability < 50 /\ d.stage = "Proposal"
                       THEN <<Recommendation("warning", "proposal_probability_low")>>
                       ELSE <<>>]
        /\ UNCHANGED <<db, ids, clock, pc, req>>

NextAdvisor ==
    \/ \E d \in DealIds : get_deal_recommendations(d)
    \/ \E u \in Users, d \in DealIds : deal_detail(u, d)

SpecAdvisor == InitAdvisor /\ [][NextAdvisor]_vars

\* the deal the last request was about is a Lead created more than 30 days
\* ago that meets no other rule: touched and active within the last days,
\* probability in the range of its stage, no close date near or past
StaleLeadOnly ==
    LET d == Deals[last.deal_id]
    IN  /\ d.stage = "Lead"
        /\ days_between(clock, d.created_date) = 40
        /\ days_between(clock, d.updated_date) <= StagnantDays
        /\ d.probability = 10
        /\ d.expected_close = NoDate \/ days_between(d.expected_close, clock) > CloseSoonDays
        /\ \E a \in DOMAIN db["sales_activities"] :
              /\ db["sales_activities"][a].deal_id = last.deal_id
              /\ days_between(clock, db["sales_activities"][a].created_date) < CloseSoonDays

\* C22: for a deal created 40 days ago, still in Lead and meeting no other
\* rule, the recommendations are exactly one, of type info, from the
\* stale-lead rule.
C22_StaleLeadRecommendation ==
    (last.op \in {"get_deal_recommendations", "deal_detail"} /\ last.result = "ok"
     /\ StaleLeadOnly)
    => /\ Len(last.recommendations) = 1
       /\ last.recommendations[1].type = "info"
       /\ last.recommendations[1].rule = "stale_lead"

(***************************************************************************)
(* The cache and the rate limit                                            *)
(***************************************************************************)
\* django.core.cache: cache.get(key, default); an entry is gone once its
\* timeout has passed
cache_get(key, default) ==
    IF key \in DOMAIN db["cache"] /\ clock < db["cache"][key].expires
    THEN db["cache"][key].value
    ELSE default

\* cache.set(key, value, timeout): the store after the call
cache_set(key, value, timeout) ==
    [k \in DOMAIN db["cache"] \cup {key} |->
        IF k = key THEN [value |-> value, expires |-> clock + timeout]
        ELSE db["cache"][k]]

\* client addresses
ClientIps == {"10.0.0.1", "10.0.0.2"}

\* @rate_limit(max_requests, window) as applied to the view
max_requests == 2

window == 2

\* f"rate_limit_{view_func.__name__}_{client_ip}"
rate_key(view, client_ip) == <<"rate_limit", view, client_ip>>

\* an empty cache; view_runs[ip][t] counts the runs of the view for client
\* ip at time t, none so far
InitRate ==
    /\ db = [cache |-> <<>>,
             view_runs |-> [ip \in ClientIps |-> [t \in 0..MaxClock |-> 0]]]
    /\ ids = [c \in Collections |-> 0]
    /\ clock = 0
    /\ last = Rejected("init", 0, "ok")
    /\ pc = [p \in Procs |-> "idle"]
    /\ req = [p \in Procs |-> NoReq]

\* rate_limit._wrapped_view up to the test of the count: worker p reads the
\* counter of the client and answers 429 or goes on
rate_limit_read(p, client_ip) ==
    LET current_count == cache_get(rate_key("view", client_ip), 0)
    IN  /\ pc[p] = "idle"
        /\ IF current_count >= max_requests
           THEN /\ last' = [op |-> "rate_limit", result |-> 429, client_ip |-> client_ip]
                /\ UNCHANGED <<pc, req>>
           ELSE /\ pc' = [pc EXCEPT ![p] = "counted"]
                /\ req' = [req EXCEPT ![p] = [client_ip |-> client_ip,
                                              current_count |-> current_count]]
                /\ UNCHANGED last
        /\ UNCHANGED <<db, ids, clock>>

\* the rest of _wrapped_view: worker p writes the count it read plus one and
\* runs the view
rate_limit_write(p) ==
    /\ pc[p] = "counted"
    /\ db' = [cache |-> cache_set(rate_key("view", req[p].client_ip),
                                  req[p].current_count + 1, window),
              view_runs |-> [db["view_runs"] EXCEPT ![req[p].client_ip][clock] = @ + 1]]
    /\ last' = [op |-> "rate_limit", result |-> 200, client_ip |-> req[p].client_ip]
    /\ pc' = [pc EXCEPT ![p] = "idle"]
    /\ req' = [req EXCEPT ![p] = NoReq]
    /\ UNCHANGED <<ids, clock>>

\* time passes
tick ==
    /\ clock < MaxClock
    /\ clock' = clock + 1
    /\ UNCHANGED <<db, ids, last, pc, req>>

NextRate ==
    \/ \E p \in Procs, ip \in ClientIps : rate_limit_read(p, ip)
    \/ \E p \in Procs : rate_limit_write(p)
    \/ tick

SpecRate == InitRate /\ [][NextRate]_vars

\* the number of runs of the view for a client in the window starting at
\* time s
RECURSIVE RunsIn(_, _, _)
RunsIn(client_ip, s, n) ==
    IF n = 0 \/ s > MaxClock THEN 0
    ELSE db["view_runs"][client_ip][s] + RunsIn(client_ip, s + 1, n - 1)

\* C24: for each client address, at most max_requests requests are passed
\* through to the view within any window, also when requests of one client
\* are handled concurrently.
C24_AtMostMaxRequestsPerWindow ==
    \A ip \in ClientIps : \A s \in 0..MaxClock :
        RunsIn(ip, s, window) <= max_requests

(***************************************************************************)
(* Closed deals                                                            *)
(***************************************************************************)
\* DealForm.clean: the exact probability of a closed stage
stage_probability_ranges ==
    [Lead |-> <<0, 25>>, Qualified |-> <<20, 50>>, Proposal |-> <<40, 70>>,
     Negotiation |-> <<60, 90>>, Won |-> <<100, 100>>, Lost |-> <<0, 0>>]

\* C25: in every state reached by deal_create, deal_update and stage moves,
\* a deal whose stage is Won has probability 100 and a deal whose stage is
\* Lost has probability 0.
C25_ClosedDealProbability ==
    \A d \in DOMAIN Deals :
        Deals[d].stage \in {"Won", "Lost"}
        => Deals[d].probability = stage_probability_ranges[Deals[d].stage][1]

(***************************************************************************)
(* Who may change a deal                                                   *)
(***************************************************************************)
\* a request by user u that names deal d: the form update, the stage move
\* and the generic update endpoint
RequestOn(u, d) ==
    \/ \E s \in FormStageInputs, p \in ProbInputs, up \in BOOLEAN :
          deal_update(u, d, s, p, up)
    \/ \E s \in StageInputs, p \in BodyProbInputs, up \in BOOLEAN :
          deal_move_stage(u, d, s, p, up)
    \/ \E data \in GenericData, up \in BOOLEAN :
          update_record_view(u, "deals", d, data, up)

\* C26: a request on a deal by a user who is neither staff nor the user the
\* deal is assigned to is rejected and leaves the deal record and the history
\* log unchanged, so stage, status and probability change only on requests of
\* staff or of the assigned user.
C26_OnlyStaffOrAssigneeChangesDeal ==
    \A u \in Users : \A d \in DOMAIN Deals :
        PermissionDenied(u, Deals[d])
        => ~ENABLED (RequestOn(u, d) /\ (Deals' # Deals \/ History' # History))

(***************************************************************************)
(* A stage move the store rejects                                          *)
(***************************************************************************)
\* C27: when the store rejects the deal update inside deal_move_stage, the
\* request is answered with an error, no history record is appended and the
\* deal is unchanged; a step of deal_move_stage that appends a history record
\* is a served one whose record names the stage the deal was just given.
C27_RejectedMoveChangesNothing ==
    [][/\ (last'.op = "deal_move_stage" /\ last'.result = "failed")
          => (Deals' = Deals /\ History' = History)
       /\ (last'.op = "deal_move_stage" /\ History' # History)
          => /\ last'.result = "ok"
             /\ \A h \in DOMAIN History' \ DOMAIN History :
                   /\ History'[h].deal_id = last'.deal_id
                   /\ Deals'[last'.deal_id].stage = History'[h].to_stage
                   /\ Deals'[last'.deal_id].updated_at = clock']_vars

\* C27 witness: a move of a stored deal to another stage was answered
\* "failed" because the store rejected the update.
C27_Witness ==
    /\ last.op = "deal_move_stage"
    /\ last.result = "failed"
    /\ last.deal_id \in DOMAIN Deals
    /\ HistOf(last.deal_id) # {}

(***************************************************************************)
(* Cached view results                                                     *)
(***************************************************************************)
\* query strings of the requests: sequences of (key, value) pairs
Queries ==
    {<<>>, <<<<"period", "month">>>>,
     <<<<"period", "week">>, <<"period", "month">>>>}

\* request.GET.get(key, default): the last value given for the key
query_get(query, key, default) ==
    LET at == {i \in DOMAIN query : query[i][1] = key}
    IN  IF at = {} THEN default
        ELSE query[CHOOSE i \in at : \A j \in at : j <= i][2]

\* sorted(request.GET.items()): one (key, last value) pair per key
get_params(query) ==
    {<<query[i][1], query_get(query, query[i][1], "")>> : i \in DOMAIN query}

\* request.user.id if request.user.is_authenticated else 0
user_id(u) == IF is_authenticated(u) THEN u ELSE "0"

\* cache_key with the user left out of cache_data
cache_keyMut(view, u, query) ==
    <<"view_cache", view, "()", "{}", get_params(query)>>

\* 'view_cache_' + md5(json.dumps(cache_data, sort_keys=True)): one key per
\* value of cache_data
cache_key(view, u, query) ==
    <<"view_cache", view, "()", "{}", user_id(u), get_params(query)>>

\* @cache_result(timeout=300) of metrics_api, in clock steps
metrics_timeout == 2

\* an empty cache
InitCache ==
    /\ db = [cache |-> <<>>]
    /\ ids = [c \in Collections |-> 0]
    /\ clock = 0
    /\ last = Rejected("init", 0, "ok")
    /\ pc = [p \in Procs |-> "idle"]
    /\ req = [p \in Procs |-> NoReq]

\* the JSON of metrics_api: the metrics of get_dashboard_metrics for the
\* user filter and the period, as of the time they were computed
metrics_response(u, query) ==
    [user_filter |-> IF is_staff(u) THEN NoUser ELSE u,
     period |-> query_get(query, "period", "month"),
     computed_at |-> clock,
     request |-> [view |-> "metrics_api", user |-> u, query |-> query]]

\* metrics_api behind login_required and cache_result (GET)
metrics_api(u, query) ==
    LET key == cache_key("metrics_api", u, query)
        cached_result == cache_get(key, <<>>)
    IN  IF ~is_authenticated(u)
        THEN /\ last' = [op |-> "metrics_api", result |-> "login", user |-> u,
                         query |-> query]
             /\ UNCHANGED <<db, ids, clock, pc, req>>
        ELSE IF cached_result # <<>>
        THEN /\ last' = [op |-> "metrics_api", result |-> "ok", user |-> u,
                         query |-> query, cached |-> TRUE,
                         response |-> cached_result]
             /\ UNCHANGED <<db, ids, clock, pc, req>>
        ELSE /\ db' = [cache |-> cache_set(key, metrics_response(u, query),
                                           metrics_timeout)]
             /\ last' = [op |-> "metrics_api", result |-> "ok", user |-> u,
                         query |-> query, cached |-> FALSE,
                         response |-> metrics_response(u, query)]
             /\ UNCHANGED <<ids, clock, pc, req>>

NextCache ==
    \/ \E u \in Users \cup {Anonymous}, q \in Queries : metrics_api(u, q)
    \/ tick

SpecCache == InitCache /\ [][NextCache]_vars

TimestampsNonDecreasing ==
    \A i \in DOMAIN History : \A j \in DOMAIN History :
        i <= j => History[i].changed_date <= History[j].changed_date

\* C29: over a log whose timestamps never decrease, every time-in-stage
\* sample of calculate_velocity_metrics is non-negative, also when a deal
\* enters a stage more than once.
C29_TimeInStageNonNegative ==
    (last.op = "calculate_velocity_metrics" /\ TimestampsNonDecreasing)
    => \A stage \in DOMAIN last.times :
          \A i \in DOMAIN last.times[stage] : last.times[stage][i] >= 0

(***************************************************************************)
(* FirebaseAuth: sign_up and sign_in                                       *)
(***************************************************************************)
Emails == {"ann@example.com", "ben@example.com"}

Passwords == {"pw1", "pw2"}

\* "if db and admin_auth": the Firebase mode, else the local one
AuthModes == {"firebase", "local"}

\* hashlib.sha256(password.encode()).hexdigest()
sha256(password) == <<"sha256", password>>

\* f({}, k, v): the dictionary f with f[k] = v
dict_set(f, k, v) == [x \in DOMAIN f \cup {k} |-> IF x = k THEN v ELSE f[x]]

\* no accounts. auth_users are the accounts of Firebase Auth, users the
\* documents of the Firestore collection 'users', LOCAL_USERS the class
\* attribute; sign_ups collects the (email, password) pairs of the sign_up
\* calls that returned success
InitAuth ==
    /\ \E mode \in AuthModes :
          db = [mode |-> mode, auth_users |-> <<>>, users |-> <<>>,
                LOCAL_USERS |-> <<>>, sign_ups |-> {}]
    /\ ids = [c \in Collections |-> 0]
    /\ clock = 0
    /\ last = Rejected("init", 0, "ok")
    /\ pc = [p \in Procs |-> "idle"]
    /\ req = [p \in Procs |-> NoReq]

\* the result dictionary of sign_up and sign_in
AuthResult(op, email, password, success) ==
    [op |-> op, result |-> IF success THEN "ok" ELSE "error",
     email |-> email, password |-> password, success |-> success]

\* FirebaseAuth.sign_up; auth_up and store_up tell whether Firebase Auth and
\* Firestore answer the call or raise
sign_up(email, password, auth_up, store_up) ==
    IF db.mode = "firebase"
    THEN IF ~auth_up \/ email \in DOMAIN db.auth_users
         THEN /\ last' = AuthResult("sign_up", email, password, FALSE)
              /\ UNCHANGED <<db, ids, clock, pc, req>>
         ELSE IF ~store_up
         THEN /\ db' = [db EXCEPT !.auth_users = dict_set(@, email, password)]
              /\ last' = AuthResult("sign_up", email, password, FALSE)
              /\ UNCHANGED <<ids, clock, pc, req>>
         ELSE /\ db' = [db EXCEPT !.auth_users = dict_set(@, email, password),
                                  !.users = dict_set(@, email, [email |-> email,
                                                                role |-> "user"]),
                                  !.sign_ups = @ \cup {<<email, password>>}]
              /\ last' = AuthResult("sign_up", email, password, TRUE)
              /\ UNCHANGED <<ids, clock, pc, req>>
    ELSE IF email \in DOMAIN db.LOCAL_USERS
         THEN /\ last' = AuthResult("sign_up", email, password, FALSE)
              /\ UNCHANGED <<db, ids, clock, pc, req>>
         ELSE /\ db' = [db EXCEPT !.LOCAL_USERS =
                                      dict_set(@, email, [password |-> sha256(password)]),
                                  !.sign_ups = @ \cup {<<email, password>>}]
              /\ last' = AuthResult("sign_up", email, password, TRUE)
              /\ UNCHANGED <<ids, clock, pc, req>>

\* FirebaseAuth.sign_in
sign_in(email, password, store_up) ==
    /\ last' =
         IF db.mode = "firebase"
         THEN AuthResult("sign_in", email, password,
                         store_up /\ \E uid \in DOMAIN db.users :
                                        db.users[uid].email = email)
         ELSE AuthResult("sign_in", email, password,
                         /\ email \in DOMAIN db.LOCAL_USERS
                         /\ db.LOCAL_USERS[email].password = sha256(password))
    /\ UNCHANGED <<db, ids, clock, pc, req>>

NextAuth ==
    \/ \E e \in Emails, p \in Passwords, auth_up \in BOOLEAN, store_up \in BOOLEAN :
          sign_up(e, p, auth_up, store_up)
    \/ \E e \in Emails, p \in Passwords, store_up \in BOOLEAN : sign_in(e, p, store_up)

SpecAuth == InitAuth /\ [][NextAuth]_vars

\* C30: sign_in(email, password) returns success only if an earlier sign_up
\* for that email succeeded with the same password, in local mode and in
\* Firebase mode alike.
C30_SignInNeedsSignUp ==
    (last.op = "sign_in" /\ last.success)
    => <<last.email, last.password>> \in db.sign_ups

====
